---- MODULE Spec2Model ----
(***************************************************************************)
(* Model of the fuel-indexer execution runtime:                            *)
(*   - run_executor, the ingestion scheduler of one indexer task           *)
(*     (packages/fuel-indexer/src/executor.rs),                            *)
(*   - NativeIndexExecutor::handle_events and                              *)
(*     WasmIndexExecutor::handle_events, the two handler hosts,            *)
(*   - the Database session the hosts drive (start / commit / revert),     *)
(*   - WasmIndexExecutor::new and WasmIndexExecutor::create, which build   *)
(*     a sandboxed executor and spawn its task,                            *)
(*   - the GraphQL query compiler: GraphqlQueryBuilder::build (fragment    *)
(*     resolution, operations) and Operation::parse                        *)
(*     (packages/fuel-indexer-graphql/src/graphql.rs),                     *)
(*   - the schema compiler: SchemaBuilder::build and commit_metadata,      *)
(*     Schema::load_from_db and get_foreign_keys                           *)
(*     (packages/fuel-indexer-schema/src/db/tables.rs),                    *)
(*   - attempt_database_connection, the retry loop around the database     *)
(*     connection (packages/fuel-indexer-lib/src/utils.rs).                *)
(***************************************************************************)
EXTENDS Integers, Sequences, FiniteSets, TLC

(* ---------------------------------------------------------------------- *)
(* Program constants (packages/fuel-indexer-lib/src/defaults.rs)          *)
(* ---------------------------------------------------------------------- *)
INDEX_FAILED_CALLS == 10
MAX_DATABASE_CONNECTION_ATTEMPTS == 5
INITIAL_RETRY_DELAY_SECS == 2
MAX_EMPTY_BLOCK_REQUESTS == 10
NODE_GRAPHQL_PAGE_SIZE == 10

\* usize::MAX: only ever compared for equality with num_empty_block_reqs,
\* which stays far below it; it is represented by the largest integer TLC
\* handles.
USIZE_MAX == (2^30 - 1) + 2^30

(* ---------------------------------------------------------------------- *)
(* Bounds of the model                                                    *)
(* ---------------------------------------------------------------------- *)
\* height of the last block the node ever serves
MaxHeight == 2
\* largest manifest.start_block
MaxStart == 2
\* number of transactions in block 1 (every other block is empty)
MaxTx == 2
\* num_empty_block_reqs is not counted beyond this value
MaxEmptyPolls == 11
\* deepest nesting of selection sets below a top-level field of a query
MaxDepth == 3

(* ---------------------------------------------------------------------- *)
(* State                                                                  *)
(* ---------------------------------------------------------------------- *)
VARIABLES
    executor_kind,          \* "native" | "wasm": the Executor implementation
    stop_idle_indexers,     \* config.stop_idle_indexers
    kill_switch,            \* Arc<AtomicBool>
    next_cursor,            \* Option<String>: <<>> is None, <<h>> is Some(h)
    retry_count,
    num_empty_block_reqs,
    pc,                     \* position of the indexer task
    cursor,                 \* PaginatedResult.cursor of this iteration
    results,                \* PaginatedResult.results: heights of the blocks
    block_info,             \* Vec<BlockData> handed to handle_events
    res,                    \* outcome of the handler call inside handle_events
    result,                 \* what handle_events returned to run_executor
    tx_open,                \* Database: a transaction is open on the session
    pending,                \* Database: rows written in the open transaction
    committed,              \* Database: committed rows
    db_guard,               \* Arc<Mutex<Database>>: who holds the guard
    transport_failed,       \* history: client.blocks failed in this iteration
    tx_outcomes,            \* history: the node's answer for each transaction
    blocks_fetched,         \* history: the page of this iteration as fetched
    tx_started,             \* history: this handle_events began a transaction
    tx_end,                 \* history: "commit" | "revert" executed by it
    changes,                \* history: rows the handler wrote in this call
    consec_fails,           \* history: handle_events failures in a row
    exit_cause              \* history: why the task left the loop

vars == << executor_kind, stop_idle_indexers, kill_switch, next_cursor,
           retry_count, num_empty_block_reqs, pc, cursor, results,
           block_info, res, result, tx_open, pending, committed, db_guard,
           transport_failed, tx_outcomes, blocks_fetched, tx_started,
           tx_end, changes, consec_fails, exit_cause >>

\* WasmIndexExecutor::create and WasmIndexExecutor::new
VARIABLES
    exec_source,            \* "Manifest" | "Registry": ExecutorSource
    manifest_module,        \* "Wasm" | "Native": manifest.module
    wasm,                   \* the module: which steps of loading it succeed
    create_pc,              \* position inside create / new
    killer,                 \* the Arc<AtomicBool> of line 435 exists
    tasks_spawned,          \* number of tokio::spawn(run_executor(..)) calls
    create_result           \* what create returned

creation == << exec_source, manifest_module, wasm, create_pc, killer,
               tasks_spawned, create_result >>

\* GraphqlQueryBuilder and Operation::parse
VARIABLES
    schema,                 \* &Schema
    document,               \* gql::Document: the definitions of the query
    gql_pc,                 \* position inside build / parse
    fragments,              \* process_fragments: HashMap<String, Fragment>
    to_resolve,             \* process_fragments: Vec<(String, Fragment)>
    passes,                 \* history: iterations of the resolution loop
    build_result,           \* what build returned: Some("Ok") or Some(error)
    operations,             \* GraphqlQuery.operations
    todo,                   \* top-level selections parse has not visited yet
    top,                    \* parse: entity_name, alias of the top field
    queue,                  \* parse: Vec<Selection>
    entities,               \* parse: Vec<String>
    nested_entity_stack,    \* parse: Vec<String>
    last_seen_entities_len, \* parse
    elements,               \* parse: Vec<QueryElement>
    joins,                  \* parse: HashMap<String, QueryJoinNode>
    query_params,           \* parse: QueryParams
    queries                 \* parse: Vec<UserQuery>

graphql == << schema, document, gql_pc, fragments, to_resolve, passes,
              build_result, operations, todo, top, queue, entities,
              nested_entity_stack, last_seen_entities_len, elements, joins,
              query_params, queries >>

(* ---------------------------------------------------------------------- *)
(* State of the schema compiler (SchemaBuilder, tables.rs)                *)
(* ---------------------------------------------------------------------- *)
VARIABLES
    ast,                    \* the schema text: its definitions, in order
    sb,                     \* the SchemaBuilder
    sb_pc,                  \* position inside build / commit_metadata
    sb_index,               \* index of the `for` loop being run
    executed,               \* the DDL the database has executed, in order
    commit_schema,          \* the Schema commit_metadata returned
    loaded,                 \* the Schema of load_from_db, once loaded
    previous                \* the builder an earlier build of the text gave

compiler ==
    << ast, sb, sb_pc, sb_index, executed, commit_schema, loaded, previous >>

(* ---------------------------------------------------------------------- *)
(* State of attempt_database_connection (fuel-indexer-lib/src/utils.rs)   *)
(* ---------------------------------------------------------------------- *)
VARIABLES
    conn_pc,                \* position inside attempt_database_connection
    remaining_retries,
    delay,                  \* seconds to sleep before the next attempt
    fut_calls,              \* history: how often fut() has been called
    fut_errors,             \* history: the errors fut() returned, in order
    slept,                  \* history: seconds slept so far
    connected               \* the value the function returned

connection ==
    << conn_pc, remaining_retries, delay, fut_calls, fut_errors, slept,
       connected >>

None == << >>
Some(v) == << v >>

Min(a, b) == IF a < b THEN a ELSE b

\* {s[i]}: the elements of a sequence
Range(s) == { s[i] : i \in DOMAIN s }

(* ---------------------------------------------------------------------- *)
(* The node (fuel-core client), as seen through FuelClient                *)
(* ---------------------------------------------------------------------- *)
\* ids of the transactions of block h, in node order
NodeTransactions(h) ==
    [ i \in 1..(IF h = 1 THEN MaxTx ELSE 0) |-> 10 * h + i ]

\* height after which a forward page starts
After(c) == IF c = None THEN 0 ELSE c[1]

\* the page of n blocks following cursor c
Page(c, n) == [ i \in 1..n |-> After(c) + i ]

\* answers of client.transaction / client.receipts for one transaction:
\*   "ok"          transaction and receipts fetched
\*   "no_receipts" transaction fetched, client.receipts failed
\*   "none"        client.transaction returned Ok(None)
\*   "err"         client.transaction returned Err
\*   "bad_time"    transaction fetched, its status time has no Utc timestamp
TxOutcomes == { "ok", "no_receipts", "none", "err", "bad_time" }

RECURSIVE TxIdsOf(_)
TxIdsOf(heights) ==
    IF heights = << >> THEN {}
    ELSE Range(NodeTransactions(Head(heights))) \cup TxIdsOf(Tail(heights))

(* ---------------------------------------------------------------------- *)
(* run_executor: enrichment of the fetched blocks (lines 132-218)         *)
(* ---------------------------------------------------------------------- *)
\* variant of the inner loop that leaves the block at the first transaction
\* the node does not answer with
RECURSIVE EnrichTransactionsAbort(_, _, _)
EnrichTransactionsAbort(trans, outcome, transactions) ==
    IF trans = << >> THEN transactions
    ELSE LET id == Head(trans)
         IN  CASE outcome[id] = "ok" ->
                      EnrichTransactionsAbort(Tail(trans), outcome,
                          Append(transactions, [id |-> id, receipts |-> TRUE]))
               [] outcome[id] = "no_receipts" ->
                      EnrichTransactionsAbort(Tail(trans), outcome,
                          Append(transactions, [id |-> id, receipts |-> FALSE]))
               [] OTHER -> transactions

\* the inner loop `for trans in block.transactions`
RECURSIVE EnrichTransactions(_, _, _)
EnrichTransactions(trans, outcome, transactions) ==
    IF trans = << >> THEN transactions
    ELSE LET id == Head(trans)
             pushed ==
                 CASE outcome[id] = "ok" ->
                          Append(transactions, [id |-> id, receipts |-> TRUE])
                   [] outcome[id] = "no_receipts" ->
                          Append(transactions, [id |-> id, receipts |-> FALSE])
                   [] OTHER -> transactions
         IN  EnrichTransactions(Tail(trans), outcome, pushed)

\* the outer loop `for block in results.into_iter()`
RECURSIVE EnrichBlocks(_, _, _)
EnrichBlocks(heights, outcome, info) ==
    IF heights = << >> THEN info
    ELSE LET h == Head(heights)
             block == [ height |-> h,
                        transactions |->
                            EnrichTransactions(NodeTransactions(h), outcome, << >>) ]
         IN  EnrichBlocks(Tail(heights), outcome, Append(info, block))

\* `.single().unwrap()` on the status time panics the task
EnrichPanics(heights, outcome) ==
    \E id \in TxIdsOf(heights) : outcome[id] = "bad_time"

(* ---------------------------------------------------------------------- *)
(* Database session (start_transaction, commit_transaction,               *)
(* revert_transaction, put_object)                                        *)
(* ---------------------------------------------------------------------- *)
\* what the session reads: committed rows and the rows of its open transaction
Visible == committed \cup pending

\* BEGIN: opens a transaction; on a session whose transaction is still open
\* it continues that transaction
StartTransaction(ok) ==
    /\ tx_open' = (tx_open \/ ok)
    /\ UNCHANGED << pending, committed >>

\* COMMIT: all pending rows become committed; a failed COMMIT aborts
CommitTransaction(ok) ==
    /\ tx_open' = FALSE
    /\ pending' = {}
    /\ committed' = IF ok /\ tx_open THEN committed \cup pending ELSE committed

\* ROLLBACK: pending rows are dropped
RevertTransaction(ok) ==
    /\ tx_open' = FALSE
    /\ pending' = {}
    /\ UNCHANGED committed

\* rows the handler stores for the first k blocks of its batch
RowsOf(blocks, k) == { blocks[i].height : i \in 1..k }

(* ---------------------------------------------------------------------- *)
(* Init: the state run_executor builds before the loop (lines 74-108)     *)
(* ---------------------------------------------------------------------- *)
\* variant that applies the cap whatever the policy
max_empty_block_reqs_always == MAX_EMPTY_BLOCK_REQUESTS

max_empty_block_reqs ==
    IF stop_idle_indexers THEN MAX_EMPTY_BLOCK_REQUESTS ELSE USIZE_MAX

InitCursor(start_block) ==
    IF start_block > 1 THEN Some(start_block - 1) ELSE None

\* no executor is being created
CreationOff ==
    /\ exec_source = "Registry"
    /\ manifest_module = "Wasm"
    /\ wasm = [ e \in {} |-> FALSE ]
    /\ create_pc = "off"
    /\ killer = FALSE
    /\ tasks_spawned = 0
    /\ create_result = None

\* no query is being compiled
GraphqlOff ==
    /\ schema = << >>
    /\ document = << >>
    /\ gql_pc = "off"
    /\ fragments = << >>
    /\ to_resolve = << >>
    /\ passes = 0
    /\ build_result = None
    /\ operations = << >>
    /\ todo = << >>
    /\ top = << >>
    /\ queue = << >>
    /\ entities = << >>
    /\ nested_entity_stack = << >>
    /\ last_seen_entities_len = 0
    /\ elements = << >>
    /\ joins = << >>
    /\ query_params = << >>
    /\ queries = << >>

\* no schema is being compiled
CompilerOff ==
    /\ ast = << >>
    /\ sb = << >>
    /\ sb_pc = "off"
    /\ sb_index = 0
    /\ executed = << >>
    /\ commit_schema = None
    /\ loaded = None
    /\ previous = None

\* no database connection is being attempted
ConnectionOff ==
    /\ conn_pc = "off"
    /\ remaining_retries = 0
    /\ delay = 0
    /\ fut_calls = 0
    /\ fut_errors = << >>
    /\ slept = 0
    /\ connected = None

Init ==
    /\ CreationOff
    /\ GraphqlOff
    /\ CompilerOff
    /\ ConnectionOff
    /\ executor_kind \in { "native", "wasm" }
    /\ stop_idle_indexers \in BOOLEAN
    /\ kill_switch = FALSE
    /\ \E start_block \in 0..MaxStart : next_cursor = InitCursor(start_block)
    /\ retry_count = 0
    /\ num_empty_block_reqs = 0
    /\ pc = "fetch"
    /\ cursor = None
    /\ results = << >>
    /\ block_info = << >>
    /\ res = "none"
    /\ result = "none"
    /\ tx_open = FALSE
    /\ pending = {}
    /\ committed = {}
    /\ db_guard = "free"
    /\ transport_failed = FALSE
    /\ tx_outcomes = << >>
    /\ blocks_fetched = << >>
    /\ tx_started = FALSE
    /\ tx_end = "none"
    /\ changes = {}
    /\ consec_fails = 0
    /\ exit_cause = "none"

dbvars == << tx_open, pending, committed >>
cfgvars == << executor_kind, stop_idle_indexers >>
schedvars == << next_cursor, retry_count, num_empty_block_reqs >>
callvars == << tx_started, tx_end, changes >>

(* ---------------------------------------------------------------------- *)
(* run_executor: client.blocks(...) (lines 111-130)                       *)
(* ---------------------------------------------------------------------- *)
Fetch ==
    /\ UNCHANGED << creation, graphql, compiler, connection >>
    /\ pc = "fetch"
    /\ \/ \* transport failure: unwrap_or_else yields an empty page
          /\ transport_failed' = TRUE
          /\ cursor' = None
          /\ results' = << >>
       \/ \* the node answers with the n blocks it has after next_cursor
          \E n \in 0..Min(NODE_GRAPHQL_PAGE_SIZE, MaxHeight - After(next_cursor)) :
              /\ transport_failed' = FALSE
              /\ results' = Page(next_cursor, n)
              /\ cursor' = IF n = 0 THEN None ELSE Some(After(next_cursor) + n)
    /\ blocks_fetched' = results'
    /\ pc' = "enrich"
    /\ UNCHANGED << cfgvars, kill_switch, schedvars, block_info, res, result,
                    dbvars, db_guard, tx_outcomes, callvars, consec_fails,
                    exit_cause >>

(* ---------------------------------------------------------------------- *)
(* run_executor: build block_info (lines 132-218)                         *)
(* ---------------------------------------------------------------------- *)
Enrich ==
    /\ UNCHANGED << creation, graphql, compiler, connection >>
    /\ pc = "enrich"
    /\ \E outcome \in [ TxIdsOf(results) -> TxOutcomes ] :
          IF EnrichPanics(results, outcome)
          THEN \* the task dies with its locals
               /\ pc' = "panicked"
               /\ exit_cause' = "panic"
               /\ block_info' = << >>
               /\ tx_outcomes' = << >>
               /\ blocks_fetched' = << >>
               /\ cursor' = None
               /\ transport_failed' = FALSE
          ELSE /\ pc' = "call"
               /\ block_info' = EnrichBlocks(results, outcome, << >>)
               /\ tx_outcomes' = IF DOMAIN outcome = {} THEN << >> ELSE outcome
               /\ UNCHANGED << exit_cause, blocks_fetched, cursor,
                               transport_failed >>
    /\ results' = << >>
    /\ UNCHANGED << cfgvars, kill_switch, schedvars, res, result, dbvars,
                    db_guard, callvars, consec_fails >>

(* ---------------------------------------------------------------------- *)
(* handle_events, up to start_transaction                                 *)
(*   native: line 357        wasm: lines 478-486                          *)
(* ---------------------------------------------------------------------- *)
\* variant in which the guard taken for start_transaction stays with the
\* executor when the statement ends
HandleEventsBeginHolding ==
    /\ UNCHANGED << creation, graphql, compiler, connection >>
    /\ pc = "call"
    /\ \/ /\ executor_kind = "wasm"
          /\ pc' = "result"
          /\ result' = "Err"
          /\ block_info' = << >>
          /\ UNCHANGED << dbvars, db_guard, tx_started >>
       \/ \E ok \in BOOLEAN :
              /\ db_guard = "free"
              /\ StartTransaction(ok)
              /\ tx_started' = ok
              /\ IF ok
                 THEN /\ pc' = "run"
                      /\ db_guard' = "executor"
                      /\ UNCHANGED << result, block_info >>
                 ELSE /\ pc' = "result"
                      /\ result' = "Err"
                      /\ block_info' = << >>
                      /\ UNCHANGED db_guard
    /\ tx_outcomes' = << >>
    /\ blocks_fetched' = << >>
    /\ UNCHANGED << cfgvars, kill_switch, schedvars, cursor, results, res,
                    transport_failed, tx_end, changes, consec_fails,
                    exit_cause >>

\* `self.db.lock().await.start_transaction().await?`: the MutexGuard is a
\* temporary of the statement; it is taken when the mutex is free and dropped
\* when the statement ends, whatever start_transaction returned
HandleEventsBegin ==
    /\ UNCHANGED << creation, graphql, compiler, connection >>
    /\ pc = "call"
    /\ \/ \* wasm only: WasmArg::new or get_native_function fails
          /\ executor_kind = "wasm"
          /\ pc' = "result"
          /\ result' = "Err"
          /\ block_info' = << >>
          /\ UNCHANGED << dbvars, tx_started >>
       \/ \E ok \in BOOLEAN :
              /\ db_guard = "free"
              /\ StartTransaction(ok)
              /\ tx_started' = ok
              /\ IF ok
                 THEN /\ pc' = "run"
                      /\ UNCHANGED << result, block_info >>
                 ELSE /\ pc' = "result"
                      /\ result' = "Err"
                      /\ block_info' = << >>
    /\ db_guard' = "free"
    /\ tx_outcomes' = << >>
    /\ blocks_fetched' = << >>
    /\ UNCHANGED << cfgvars, kill_switch, schedvars, cursor, results, res,
                    transport_failed, tx_end, changes, consec_fails,
                    exit_cause >>

(* ---------------------------------------------------------------------- *)
(* handle_events: the handler runs                                        *)
(*   native: line 358        wasm: line 491                               *)
(* ---------------------------------------------------------------------- *)
\* outcomes of the call: "ok", "err" (native Err, wasm trap), and for wasm
\* "join_err": the blocking task panicked, `.await?` returns the JoinError
HandlerOutcomes(kind) ==
    IF kind = "wasm" THEN { "ok", "err", "join_err" } ELSE { "ok", "err" }

\* the handler owns a clone of the Arc<Mutex<Database>> (native: the second
\* argument of handle_events_fn, line 358; wasm: env.db, line 415) and takes
\* the guard itself for its database calls
HandlerLock ==
    /\ UNCHANGED << creation, graphql, compiler, connection >>
    /\ pc = "run"
    /\ db_guard = "free"
    /\ db_guard' = "handler"
    /\ UNCHANGED << cfgvars, kill_switch, schedvars, pc, cursor, results,
                    block_info, res, result, dbvars, transport_failed,
                    tx_outcomes, blocks_fetched, callvars, consec_fails,
                    exit_cause >>

HandlerRun ==
    /\ UNCHANGED << creation, graphql, compiler, connection >>
    /\ pc = "run"
    /\ db_guard = "handler"
    /\ \E r \in HandlerOutcomes(executor_kind) :
       \E k \in 0..Len(block_info) :
          \* a handler that succeeds has stored the rows of every block
          /\ r = "ok" => k = Len(block_info)
          /\ res' = r
          /\ changes' = RowsOf(block_info, k)
          /\ pending' = pending \cup RowsOf(block_info, k)
          /\ IF r = "join_err"
             THEN /\ pc' = "result"
                  /\ result' = "Err"
             ELSE /\ pc' = "end"
                  /\ UNCHANGED result
    /\ block_info' = << >>
    \* the handler's guard is dropped when it returns or unwinds
    /\ db_guard' = "free"
    /\ UNCHANGED << cfgvars, kill_switch, schedvars, cursor, results,
                    tx_open, committed, transport_failed, tx_outcomes,
                    blocks_fetched, tx_started, tx_end, consec_fails,
                    exit_cause >>

(* ---------------------------------------------------------------------- *)
(* handle_events: commit or revert                                        *)
(*   native: lines 359-366   wasm: lines 493-510                          *)
(* ---------------------------------------------------------------------- *)
HandleEventsEnd ==
    /\ UNCHANGED << creation, graphql, compiler, connection >>
    /\ pc = "end"
    /\ \E ok \in BOOLEAN :
          IF res = "err"
          THEN /\ RevertTransaction(ok)
               /\ tx_end' = "revert"
               /\ result' = "Err"
          ELSE /\ CommitTransaction(ok)
               /\ tx_end' = "commit"
               /\ result' = IF ok THEN "Ok" ELSE "Err"
    \* lines 361 / 364 (505 / 508): again a guard of one statement
    /\ db_guard = "free"
    /\ db_guard' = "free"
    /\ pc' = "result"
    /\ UNCHANGED << cfgvars, kill_switch, schedvars, cursor, results,
                    block_info, res, transport_failed, tx_outcomes,
                    blocks_fetched, tx_started, changes, consec_fails,
                    exit_cause >>

(* ---------------------------------------------------------------------- *)
(* run_executor: after handle_events returned (lines 222-253)             *)
(* ---------------------------------------------------------------------- *)
\* variant of the Err branch that takes the cursor of the failed batch
OnErrAdvancing ==
    /\ result = "Err"
    /\ retry_count' = retry_count + 1
    /\ consec_fails' = consec_fails + 1
    /\ IF retry_count + 1 < INDEX_FAILED_CALLS
       THEN /\ pc' = "fetch"
            /\ UNCHANGED exit_cause
       ELSE /\ pc' = "exited"
            /\ exit_cause' = "failed"
    /\ next_cursor' = IF cursor = None THEN next_cursor ELSE cursor
    /\ UNCHANGED num_empty_block_reqs

\* variant of the Err branch that gives up one failure late
OnErrOffByOne ==
    /\ result = "Err"
    /\ retry_count' = retry_count + 1
    /\ consec_fails' = consec_fails + 1
    /\ IF retry_count + 1 <= INDEX_FAILED_CALLS
       THEN /\ pc' = "fetch"
            /\ UNCHANGED exit_cause
       ELSE /\ pc' = "exited"
            /\ exit_cause' = "failed"
    /\ UNCHANGED << next_cursor, num_empty_block_reqs >>

\* variant of the Err branch that does not count the failure
OnErrNotCounting ==
    /\ result = "Err"
    /\ IF retry_count + 1 < INDEX_FAILED_CALLS
       THEN /\ pc' = "fetch"
            /\ UNCHANGED exit_cause
       ELSE /\ pc' = "exited"
            /\ exit_cause' = "failed"
    /\ UNCHANGED << next_cursor, retry_count, consec_fails,
                    num_empty_block_reqs >>

\* `if let Err(e) = result` (lines 222-232)
OnErr ==
    /\ result = "Err"
    /\ retry_count' = retry_count + 1
    /\ consec_fails' = consec_fails + 1
    /\ IF retry_count + 1 < INDEX_FAILED_CALLS
       THEN /\ pc' = "fetch"
            /\ UNCHANGED exit_cause
       ELSE /\ pc' = "exited"
            /\ exit_cause' = "failed"
    /\ UNCHANGED << next_cursor, num_empty_block_reqs >>

\* lines 234-253
OnOk ==
    /\ result = "Ok"
    /\ consec_fails' = 0
    /\ IF cursor = None
       THEN /\ num_empty_block_reqs' = Min(num_empty_block_reqs + 1, MaxEmptyPolls)
            /\ UNCHANGED next_cursor
       ELSE /\ next_cursor' = cursor
            /\ num_empty_block_reqs' = 0
    /\ IF cursor = None /\ num_empty_block_reqs + 1 = max_empty_block_reqs
       THEN /\ pc' = "exited"
            /\ exit_cause' = "idle"
            /\ UNCHANGED retry_count
       ELSE IF kill_switch
       THEN /\ pc' = "exited"
            /\ exit_cause' = "killed"
            /\ UNCHANGED retry_count
       ELSE /\ pc' = "fetch"
            /\ retry_count' = 0
            /\ UNCHANGED exit_cause

Dispatch ==
    /\ UNCHANGED << creation, graphql, compiler, connection >>
    /\ pc = "result"
    /\ OnErr \/ OnOk
    \* the locals of the iteration go out of scope
    /\ cursor' = None
    /\ res' = "none"
    /\ result' = "none"
    /\ transport_failed' = FALSE
    /\ tx_started' = FALSE
    /\ tx_end' = "none"
    /\ changes' = {}
    /\ UNCHANGED << cfgvars, kill_switch, results, block_info, dbvars,
                    db_guard, tx_outcomes, blocks_fetched >>

(* ---------------------------------------------------------------------- *)
(* The admin Stop message sets the kill flag                              *)
(* ---------------------------------------------------------------------- *)
Kill ==
    /\ UNCHANGED << creation, graphql, compiler, connection >>
    /\ ~kill_switch
    /\ pc \notin { "exited", "panicked" }
    /\ kill_switch' = TRUE
    /\ UNCHANGED << cfgvars, schedvars, pc, cursor, results, block_info, res,
                    result, dbvars, db_guard, transport_failed, tx_outcomes,
                    blocks_fetched, callvars, consec_fails, exit_cause >>

TaskStep ==
    \/ Fetch
    \/ Enrich
    \/ HandleEventsBegin
    \/ HandlerLock
    \/ HandlerRun
    \/ HandleEventsEnd
    \/ Dispatch

Next ==
    \/ Fetch
    \/ Enrich
    \/ HandleEventsBegin
    \/ HandlerLock
    \/ HandlerRun
    \/ HandleEventsEnd
    \/ Dispatch
    \/ Kill

Spec == Init /\ [][Next]_vars

\* Specification of the liveness property: every fetch and every handler
\* call returns, so the task keeps taking steps.  It follows the indexers
\* whose manifest has start_block > 1 (the cursor starts as Some).
FairInit == Init /\ next_cursor # None

FairSpec == FairInit /\ [][Next]_vars /\ WF_vars(TaskStep)

(* ---------------------------------------------------------------------- *)
(* WasmIndexExecutor::create (lines 430-471) and WasmIndexExecutor::new   *)
(* (lines 380-417)                                                        *)
(* ---------------------------------------------------------------------- *)
\* the indexer task does not exist yet
SchedulerOff ==
    /\ executor_kind = "wasm"
    /\ stop_idle_indexers = FALSE
    /\ kill_switch = FALSE
    /\ next_cursor = None
    /\ retry_count = 0
    /\ num_empty_block_reqs = 0
    /\ pc = "unspawned"
    /\ cursor = None
    /\ results = << >>
    /\ block_info = << >>
    /\ res = "none"
    /\ result = "none"
    /\ tx_open = FALSE
    /\ pending = {}
    /\ committed = {}
    /\ db_guard = "free"
    /\ transport_failed = FALSE
    /\ tx_outcomes = << >>
    /\ blocks_fetched = << >>
    /\ tx_started = FALSE
    /\ tx_end = "none"
    /\ changes = {}
    /\ consec_fails = 0
    /\ exit_cause = "none"

\* what can go wrong with a module, one flag per fallible call:
\*   file        File::open / read_to_end         (lines 441-442)
\*   compiles    Module::new                      (line 387)
\*   env         IndexEnv::new                    (line 391)
\*   links       Instance::new                    (line 396)
\*   inits       env.init_with_instance           (line 397)
\*   schema      load_schema                      (lines 398-402)
\*   entrypoint  exports.contains(MODULE_ENTRYPOINT) (lines 404-407)
WasmSteps == { "file", "compiles", "env", "links", "inits", "schema",
               "entrypoint" }

CreateInit ==
    /\ SchedulerOff
    /\ GraphqlOff
    /\ CompilerOff
    /\ ConnectionOff
    /\ exec_source \in { "Manifest", "Registry" }
    /\ manifest_module \in { "Wasm", "Native" }
    /\ wasm \in [ WasmSteps -> BOOLEAN ]
    /\ create_pc = "create"
    /\ killer = FALSE
    /\ tasks_spawned = 0
    /\ create_result = None

\* `?` on a failed call: create returns the error, the killer is dropped
Return(r) ==
    /\ create_result' = Some(r)
    /\ create_pc' = "returned"
    /\ killer' = FALSE

\* a fallible call of `new`: on success go on with `next`
Try(step, error, next) ==
    IF wasm[step]
    THEN /\ create_pc' = next
         /\ UNCHANGED << killer, create_result >>
    ELSE Return(error)

\* lines 435-442 and 455-459
Create ==
    /\ create_pc = "create"
    /\ IF exec_source = "Manifest"
       THEN IF manifest_module = "Wasm"
            THEN IF wasm["file"]
                 THEN /\ create_pc' = "new"
                      /\ killer' = TRUE
                      /\ UNCHANGED create_result
                 ELSE Return("IoError")
            ELSE Return("NativeExecutionInstantiationError")
       ELSE /\ create_pc' = "new"
            /\ killer' = TRUE
            /\ UNCHANGED create_result
    /\ UNCHANGED << vars, graphql, compiler, connection, exec_source, manifest_module, wasm,
                    tasks_spawned >>

\* line 387
ModuleNew ==
    /\ create_pc = "new"
    /\ Try("compiles", "CompileError", "env")
    /\ UNCHANGED << vars, graphql, compiler, connection, exec_source, manifest_module, wasm,
                    tasks_spawned >>

\* line 391
IndexEnvNew ==
    /\ create_pc = "env"
    /\ Try("env", "IndexEnvError", "instance")
    /\ UNCHANGED << vars, graphql, compiler, connection, exec_source, manifest_module, wasm,
                    tasks_spawned >>

\* line 396
InstanceNew ==
    /\ create_pc = "instance"
    /\ Try("links", "InstantiationError", "init")
    /\ UNCHANGED << vars, graphql, compiler, connection, exec_source, manifest_module, wasm,
                    tasks_spawned >>

\* line 397
InitWithInstance ==
    /\ create_pc = "init"
    /\ Try("inits", "HostEnvInitError", "schema")
    /\ UNCHANGED << vars, graphql, compiler, connection, exec_source, manifest_module, wasm,
                    tasks_spawned >>

\* lines 398-402
LoadSchema ==
    /\ create_pc = "schema"
    /\ Try("schema", "SchemaError", "entrypoint")
    /\ UNCHANGED << vars, graphql, compiler, connection, exec_source, manifest_module, wasm,
                    tasks_spawned >>

\* variant of the check that accepts every module
CheckEntrypointAbsent ==
    /\ create_pc = "entrypoint"
    /\ create_pc' = "spawn"
    /\ UNCHANGED << vars, graphql, compiler, connection, exec_source, manifest_module, wasm, tasks_spawned,
                    killer, create_result >>

\* lines 404-416
CheckEntrypoint ==
    /\ create_pc = "entrypoint"
    /\ Try("entrypoint", "MissingHandler", "spawn")
    /\ UNCHANGED << vars, graphql, compiler, connection, exec_source, manifest_module, wasm,
                    tasks_spawned >>

\* lines 446-453 and 461-468: only with an executor in hand
SpawnExecutor ==
    /\ create_pc = "spawn"
    /\ tasks_spawned' = tasks_spawned + 1
    /\ create_result' = Some("Ok")
    /\ create_pc' = "returned"
    /\ UNCHANGED << vars, graphql, compiler, connection, exec_source, manifest_module, wasm, killer >>

CreateNext ==
    \/ Create
    \/ ModuleNew
    \/ IndexEnvNew
    \/ InstanceNew
    \/ InitWithInstance
    \/ LoadSchema
    \/ CheckEntrypoint
    \/ SpawnExecutor

CreateSpec == CreateInit /\ [][CreateNext]_<< vars, creation, graphql, compiler, connection >>

(* ---------------------------------------------------------------------- *)
(* GraphQL query compiler (packages/fuel-indexer-graphql/src/graphql.rs)  *)
(* over the Schema reflection (fuel-indexer-schema/src/db/tables.rs)      *)
(* ---------------------------------------------------------------------- *)
\* Result<T, GraphqlError>: err is None for Ok(val) and Some(error) for Err
Ok(v) == [ err |-> None, val |-> v ]
Err(e) == [ err |-> Some(e), val |-> << >> ]
IsOk(r) == r.err = None

\* the document as gql::parse_query returns it: a selection item is a
\* gql::Selection (Field, FragmentSpread or InlineFragment)
Field(name, selection_set) ==
    [ kind |-> "Field", name |-> name, alias |-> None, arguments |-> << >>,
      selection_set |-> selection_set ]
FragmentSpread(fragment_name) ==
    [ kind |-> "FragmentSpread", name |-> fragment_name, alias |-> None,
      arguments |-> << >>, selection_set |-> << >> ]
InlineFragment ==
    [ kind |-> "InlineFragment", name |-> "", alias |-> None,
      arguments |-> << >>, selection_set |-> << >> ]

\* a field written `alias: name` when alias is Some(..)
AliasedField(alias, name, selection_set) ==
    [ Field(name, selection_set) EXCEPT !.alias = alias ]

\* an argument `arg: value` of a field; `known` says whether
\* parse_argument_into_param accepts it for the type of the field
Argument(arg, known) == [ arg |-> arg, known |-> known ]

\* a field written `name(arguments)`
FieldWith(arguments, name, selection_set) ==
    [ Field(name, selection_set) EXCEPT !.arguments = arguments ]

\* the Schema of the index used by test_operation_parse_into_user_query
\* (graphql.rs:718-778), whose Block type also refers to its parent Block
\* and to Tx (as `tx` and as `firstTx`), and whose Tx type refers to Block
\* three times (as `block`, as `origin` and as the non-null `head: Block!`);
\* foreign_keys is what get_foreign_keys
\* (tables.rs:427-475) gives for these types: the lowercase type name, then
\* the field name as written
TestSchema ==
    [ namespace  |-> "fuel_indexer_test",
      identifier |-> "test_index",
      query      |-> "QueryRoot",
      types      |-> { "QueryRoot", "Tx", "Block" },
      fields     |->
          [ QueryRoot |-> [ tx |-> "Tx", block |-> "Block" ],
            Tx        |-> [ id |-> "ID!", timestamp |-> "Int8!",
                            block |-> "Block", origin |-> "Block",
                            head |-> "Block!" ],
            Block     |-> [ id |-> "ID!", height |-> "UInt8!",
                            parent |-> "Block", tx |-> "Tx",
                            firstTx |-> "Tx" ] ],
      foreign_keys |->
          [ tx    |-> [ block   |-> << "block", "id" >>,
                        origin  |-> << "block", "id" >>,
                        head    |-> << "block", "id" >> ],
            block |-> [ parent  |-> << "block", "id" >>,
                        tx      |-> << "tx", "id" >>,
                        firstTx |-> << "tx", "id" >> ] ] ]

\* normalize_field_type_name: the type name without its non-null mark
normalize_field_type_name(name) ==
    CASE name = "Tx!" -> "Tx"
      [] name = "Block!" -> "Block"
      [] name = "ID!" -> "ID"
      [] name = "Int8!" -> "Int8"
      [] name = "UInt8!" -> "UInt8"
      [] OTHER -> name

\* str::to_lowercase on the names of the schema
to_lowercase(name) ==
    CASE name = "Tx" -> "tx"
      [] name = "Block" -> "block"
      [] name = "QueryRoot" -> "queryroot"
      [] name = "firstTx" -> "firsttx"
      [] name = "Query" -> "query"
      [] name = "Borrower" -> "borrower"
      [] name = "Lender" -> "lender"
      [] name = "Amount" -> "amount"
      [] OTHER -> name

\* Schema::check_type (tables.rs:409-411)
check_type(sch, type_name) == type_name \in sch.types

\* HashMap::get on a field set
FieldsetGet(fieldset, name) ==
    IF name \in DOMAIN fieldset THEN Some(fieldset[name]) ELSE None

\* Schema::field_type (tables.rs:413-424): Option<&String>
field_type(sch, cond, name) ==
    IF cond \in DOMAIN sch.fields
    THEN FieldsetGet(sch.fields[cond], name)
    ELSE LET tablename == normalize_field_type_name(cond)
         IN  IF tablename \in DOMAIN sch.fields
             THEN FieldsetGet(sch.fields[tablename], name)
             ELSE None

\* Selections { _field_type, has_fragments, selections } (graphql.rs:52-56)
Selections(ft, has_fragments, selections) ==
    [ field_type |-> ft, has_fragments |-> has_fragments,
      selections |-> selections ]
NoSelections == Selections("", FALSE, << >>)

\* Selection::Field(name, params, sub_selections, alias) and
\* Selection::Fragment(name) (graphql.rs:46-49)
SelectionField(name, params, sub_selections, alias) ==
    [ kind |-> "Field", name |-> name, params |-> params,
      sub |-> sub_selections, alias |-> alias ]
SelectionFragment(name) ==
    [ kind |-> "Fragment", name |-> name, params |-> << >>,
      sub |-> NoSelections, alias |-> None ]

\* parse_argument_into_param: an argument the schema does not know is an
\* UnrecognizedArgument, any other becomes one parameter
parse_arguments(arguments) ==
    IF \E i \in DOMAIN arguments : ~arguments[i].known
    THEN Err("UnrecognizedArgument")
    ELSE Ok([ i \in DOMAIN arguments |-> arguments[i].arg ])

\* Selections::new (graphql.rs:59-123): NewItems(.., i, has_fragments,
\* selections) is the rest of the loop from item i on
RECURSIVE SelectionsNew(_, _, _), NewItems(_, _, _, _, _, _)
NewItems(sch, ft, set, i, has_fragments, selections) ==
    IF i > Len(set)
    THEN Ok(Selections(ft, has_fragments, selections))
    ELSE LET item == set[i] IN
         CASE item.kind = "Field" ->
                  LET subfield_type == field_type(sch, ft, item.name) IN
                  IF subfield_type = None
                  THEN Err("UnrecognizedField")
                  ELSE LET params == parse_arguments(item.arguments) IN
                       IF ~IsOk(params)
                       THEN params
                       ELSE LET sub_selections ==
                                    SelectionsNew(sch, subfield_type[1],
                                                  item.selection_set)
                            IN  IF ~IsOk(sub_selections)
                                THEN sub_selections
                                ELSE NewItems(sch, ft, set, i + 1,
                                         has_fragments,
                                         Append(selections,
                                             SelectionField(item.name,
                                                 params.val,
                                                 sub_selections.val,
                                                 item.alias)))
           [] item.kind = "FragmentSpread" ->
                  NewItems(sch, ft, set, i + 1, TRUE,
                           Append(selections, SelectionFragment(item.name)))
           [] OTHER -> Err("SelectionNotSupported")

SelectionsNew(sch, ft, set) ==
    NewItems(sch, ft, set, 1, FALSE, << >>)

\* Fragment { cond, selections } (graphql.rs:179-183, 185-194)
FragmentNew(sch, cond, selection_set) ==
    LET selections == SelectionsNew(sch, cond, selection_set) IN
    IF IsOk(selections)
    THEN Ok([ cond |-> cond, selections |-> selections.val ])
    ELSE selections

\* Fragment::check_cond (graphql.rs:196-198)
check_cond(frag, cond) == frag.cond = cond

\* Selections::resolve_fragments (graphql.rs:125-172).  The value of an Ok
\* is the pair of the count returned and of `self` after the call;
\* ResolveItems(.., i, has_fragments, resolved, selections) is the rest of
\* the loop from selection i on.
RECURSIVE resolve_fragments(_, _, _, _), ResolveItems(_, _, _, _, _, _, _, _)
ResolveItems(self, sch, cond, frags, i, has_fragments, resolved, selections) ==
    IF i > Len(self.selections)
    THEN Ok([ resolved |-> resolved,
              self |-> Selections(self.field_type, has_fragments, selections) ])
    ELSE LET selection == self.selections[i] IN
         IF selection.kind = "Fragment"
         THEN IF selection.name \in DOMAIN frags
              THEN LET frag == frags[selection.name] IN
                   IF ~check_cond(frag, cond)
                   THEN Err("InvalidFragmentSelection")
                   ELSE ResolveItems(self, sch, cond, frags, i + 1,
                            has_fragments, resolved + 1,
                            selections \o frag.selections.selections)
              ELSE ResolveItems(self, sch, cond, frags, i + 1, TRUE,
                       resolved, Append(selections, selection))
         ELSE LET ft == field_type(sch, cond, selection.name) IN
              IF ft = None
              THEN Err("panic")
              ELSE LET sub == resolve_fragments(selection.sub, sch, ft[1],
                                                frags)
                   IN  IF ~IsOk(sub)
                       THEN sub
                       ELSE ResolveItems(self, sch, cond, frags,
                                i + 1, has_fragments, resolved,
                                Append(selections,
                                    SelectionField(selection.name,
                                        selection.params, sub.val.self,
                                        selection.alias)))

resolve_fragments(self, sch, cond, frags) ==
    ResolveItems(self, sch, cond, frags, 1, FALSE, 0, << >>)

\* HashMap::insert
MapInsert(map, key, value) ==
    [ k \in DOMAIN map \cup { key } |-> IF k = key THEN value ELSE map[k] ]

\* a definition of the document: gql::Definition::Fragment(name, On(cond),
\* selection_set) or gql::Definition::Operation(kind, selection_set)
FragmentDefinition(name, cond, selection_set) ==
    [ def |-> "Fragment", kind |-> "", name |-> name, cond |-> cond,
      selection_set |-> selection_set ]
OperationDefinition(kind, selection_set) ==
    [ def |-> "Operation", kind |-> kind, name |-> "", cond |-> "",
      selection_set |-> selection_set ]

\* Operation::new (graphql.rs:222-235)
OperationNew(sch, name, selections) ==
    [ namespace |-> sch.namespace, identifier |-> sch.identifier,
      name |-> name, selections |-> selections ]

\* GraphqlQueryBuilder::process_fragments, first loop (graphql.rs:577-603)
RECURSIVE CollectFragments(_, _, _, _, _)
CollectFragments(sch, definitions, i, frags, pending_frags) ==
    IF i > Len(definitions)
    THEN Ok([ fragments |-> frags, to_resolve |-> pending_frags ])
    ELSE LET d == definitions[i] IN
         IF d.def # "Fragment"
         THEN CollectFragments(sch, definitions, i + 1, frags, pending_frags)
         ELSE IF ~check_type(sch, d.cond)
         THEN Err("UnrecognizedType")
         ELSE LET frag == FragmentNew(sch, d.cond, d.selection_set) IN
              IF ~IsOk(frag)
              THEN frag
              ELSE IF frag.val.selections.has_fragments
              THEN CollectFragments(sch, definitions, i + 1, frags,
                       Append(pending_frags,
                              [ name |-> d.name, frag |-> frag.val ]))
              ELSE CollectFragments(sch, definitions, i + 1,
                       MapInsert(frags, d.name, frag.val), pending_frags)

\* one pass of the second loop, its `for` (graphql.rs:606-618)
RECURSIVE ResolvePass(_, _, _, _, _, _)
ResolvePass(sch, pending_frags, i, frags, resolved, remaining) ==
    IF i > Len(pending_frags)
    THEN Ok([ fragments |-> frags, resolved |-> resolved,
              remaining |-> remaining ])
    ELSE LET name == pending_frags[i].name
             frag == pending_frags[i].frag
             r    == resolve_fragments(frag.selections, sch, frag.cond,
                                       frags)
         IN  IF ~IsOk(r)
             THEN r
             ELSE LET after == [ cond |-> frag.cond, selections |-> r.val.self ]
                  IN  IF after.selections.has_fragments
                      THEN ResolvePass(sch, pending_frags, i + 1, frags,
                               resolved + r.val.resolved,
                               Append(remaining,
                                      [ name |-> name, frag |-> after ]))
                      ELSE ResolvePass(sch, pending_frags, i + 1,
                               MapInsert(frags, name, after),
                               resolved + r.val.resolved, remaining)

\* variant that compiles a mutation or a subscription to an operation
\* without selections
OperationSkipped(sch, operation) ==
    Ok(OperationNew(sch, "Unnamed", Selections(sch.query, FALSE, << >>)))

\* the Mutation and Subscription arms (graphql.rs:550-555)
OperationNotSupported(sch, operation) ==
    Err("OperationNotSupported")

\* GraphqlQueryBuilder::process_operation (graphql.rs:510-557)
process_operation(sch, operation, frags) ==
    CASE operation.kind = "SelectionSet" ->
             LET selections == SelectionsNew(sch, sch.query,
                                             operation.selection_set)
             IN  IF ~IsOk(selections)
                 THEN selections
                 ELSE Ok(OperationNew(sch, "Unnamed", selections.val))
      [] operation.kind = "Query" ->
             LET selections == SelectionsNew(sch, sch.query,
                                             operation.selection_set)
             IN  IF ~IsOk(selections)
                 THEN selections
                 ELSE LET r == resolve_fragments(selections.val, sch,
                                                 sch.query, frags)
                      IN  IF ~IsOk(r)
                          THEN r
                          ELSE Ok(OperationNew(sch, "Unnamed", r.val.self))
      [] OTHER -> OperationNotSupported(sch, operation)

\* GraphqlQueryBuilder::process_operations (graphql.rs:559-574)
RECURSIVE process_operations(_, _, _, _, _)
process_operations(sch, definitions, i, frags, ops) ==
    IF i > Len(definitions)
    THEN Ok(ops)
    ELSE LET d == definitions[i] IN
         IF d.def # "Operation"
         THEN process_operations(sch, definitions, i + 1, frags, ops)
         ELSE LET op == process_operation(sch, d, frags) IN
              IF ~IsOk(op)
              THEN op
              ELSE process_operations(sch, definitions, i + 1, frags,
                                      Append(ops, op.val))

(* ---------------------------------------------------------------------- *)
(* The documents the builder is run on                                    *)
(* ---------------------------------------------------------------------- *)
\* selection sets under a Block-typed field, nested at most d levels deep
RECURSIVE BlockSets(_)
BlockSets(d) ==
    LET leaves == { << Field("id", << >>) >>,
                    << Field("id", << >>), Field("height", << >>) >> }
    IN  IF d <= 1
        THEN leaves
        ELSE leaves \cup
             UNION { { << Field("parent", s) >>,
                       << Field("parent", s), Field("height", << >>) >>,
                       << Field("id", << >>), Field("parent", s) >>,
                       << Field("id", << >>), Field("parent", s),
                          Field("height", << >>) >> } : s \in BlockSets(d - 1) }

\* selection sets under a Tx-typed field
TxSets(d) ==
    LET leaves == { << Field("id", << >>) >>,
                    << Field("id", << >>), Field("timestamp", << >>) >> }
    IN  IF d <= 1
        THEN leaves
        ELSE leaves \cup
             UNION { { << Field("block", s) >>,
                       << Field("block", s), Field("timestamp", << >>) >>,
                       << Field("id", << >>), Field("block", s) >>,
                       << Field("block", s), Field("id", << >>),
                          Field("timestamp", << >>) >> } : s \in BlockSets(d - 1) }

\* documents without fragments: one operation over a tree of fields
TreeDocuments ==
    { << OperationDefinition(kind, << Field("tx", s) >>) >> :
          kind \in { "SelectionSet", "Query" }, s \in TxSets(MaxDepth) }
    \cup
    { << OperationDefinition(kind, << Field("block", s) >>) >> :
          kind \in { "SelectionSet", "Query" }, s \in BlockSets(MaxDepth) }
    \cup
    { << OperationDefinition("Query", << Field("tx", s), Field("block", t) >>) >> :
          s \in TxSets(1), t \in BlockSets(2) }

\* bodies of fragment definitions: fields, spreads of A, of B and of the
\* undefined X, directly or inside a sub-selection
FragmentBodies ==
    { << Field("id", << >>) >>,
      << Field("id", << >>), FragmentSpread("B") >>,
      << FragmentSpread("A") >>,
      << FragmentSpread("B") >>,
      << FragmentSpread("X") >>,
      << Field("block", << FragmentSpread("B") >>) >>,
      << Field("parent", << FragmentSpread("B") >>) >>,
      << InlineFragment >> }

\* types of the schema a fragment is declared on
FragmentConds == { "Tx", "Block" }

\* the definitions of fragment `name`: none, or one on a type of the schema,
\* or one on a type the schema does not have
FragmentDefinitions(name) ==
    { << >>, << FragmentDefinition(name, "Account", << Field("id", << >>) >>) >> }
    \cup
    { << FragmentDefinition(name, cond, body) >> :
          cond \in FragmentConds, body \in FragmentBodies }

\* selection sets of the operations of a document with fragments
RootSets ==
    { << Field("tx", << FragmentSpread("A"), Field("timestamp", << >>) >>) >>,
      << Field("tx", << Field("block", << FragmentSpread("B") >>),
                        Field("id", << >>) >>) >>,
      << Field("tx", << Field("id", << >>) >>) >>,
      << Field("block", << Field("height", << >>), FragmentSpread("A") >>) >>,
      << Field("tx", << FragmentSpread("X") >>) >>,
      << FragmentSpread("A") >> }

\* the operations of a document: a selection set or a query, alone or
\* followed or preceded by a mutation or a subscription
OperationLists ==
    LET reads == { << OperationDefinition(kind, set) >> :
                       kind \in { "SelectionSet", "Query" }, set \in RootSets }
        writes == { << OperationDefinition(kind, << >>) >> :
                       kind \in { "Mutation", "Subscription" } }
    IN  reads \cup writes
        \cup { r \o w : r \in reads, w \in writes }
        \cup { w \o r : w \in writes,
                        r \in { << OperationDefinition("Query",
                                     << Field("tx", << Field("id", << >>) >>) >>) >> } }

FragmentDocuments ==
    { a \o b \o ops : a \in FragmentDefinitions("A"),
                      b \in FragmentDefinitions("B"),
                      ops \in OperationLists }

\* the aliases a field is written with: none, a fresh name, or the name of
\* another field of the schema
Aliases == { None, Some("first"), Some("id") }

\* documents with aliases: two trees, every field with or without an alias
AliasDocuments ==
    { << OperationDefinition("Query",
           << AliasedField(a1, "tx",
                << AliasedField(a2, "block",
                      << AliasedField(a3, "height", << >>) >>),
                   AliasedField(a4, "timestamp", << >>) >>) >>) >> :
          a1 \in Aliases, a2 \in Aliases, a3 \in Aliases, a4 \in Aliases }
    \cup
    { << OperationDefinition("SelectionSet",
           << AliasedField(a1, "block",
                << AliasedField(a2, "id", << >>),
                   AliasedField(a3, "height", << >>) >>) >>) >> :
          a1 \in Aliases, a2 \in Aliases, a3 \in Aliases }

\* documents that follow the references between Tx and Block both ways
MutualDocuments ==
    { << OperationDefinition("Query", set) >> :
          set \in { << Field("tx", << Field("block",
                         << Field("tx", << Field("id", << >>) >>) >>) >>) >>,
                    << Field("tx", << Field("id", << >>),
                                      Field("block",
                         << Field("tx", << Field("timestamp", << >>) >>),
                            Field("height", << >>) >>) >>) >>,
                    << Field("block", << Field("tx",
                         << Field("block", << Field("id", << >>) >>) >>),
                                         Field("id", << >>) >>) >>,
                    << Field("block", << Field("tx",
                         << Field("id", << >>) >>) >>),
                       Field("tx", << Field("block",
                         << Field("height", << >>) >>) >>) >> } }

\* documents that select both references of Tx to Block, and the
\* reference of Block to Tx whose field name has an upper-case letter
ReferenceDocuments ==
    { << OperationDefinition("Query", set) >> :
          set \in { << Field("tx", << Field("block", << Field("id", << >>) >>),
                                      Field("origin",
                                            << Field("height", << >>) >>) >>) >>,
                    << Field("tx", << Field("origin", << Field("id", << >>) >>),
                                      Field("block", << Field("id", << >>) >>),
                                      Field("id", << >>) >>) >>,
                    << Field("block", << Field("firstTx",
                                               << Field("id", << >>) >>),
                                         Field("id", << >>) >>) >>,
                    << Field("tx", << Field("block", << Field("firstTx",
                         << Field("timestamp", << >>) >>) >>) >>) >> } }

\* documents with three fragments on Tx that spread each other in a chain,
\* in a cycle or not at all, defined in either order
ChainDocuments ==
    LET spread(name) == FragmentSpread(name)
        id == Field("id", << >>)
        chains ==
            { << FragmentDefinition("A", "Tx", a),
                 FragmentDefinition("B", "Tx", b),
                 FragmentDefinition("C", "Tx", c) >> :
              a \in { << spread("B") >>,
                      << spread("B"), spread("X") >>,
                      << id, spread("B"), spread("C") >> },
              b \in { << spread("C") >>, << id >>, << spread("A") >> },
              c \in { << id >>, << spread("A") >>,
                      << Field("timestamp", << >>) >> } }
        op == OperationDefinition("Query",
                  << Field("tx", << spread("A") >>) >>)
    IN  { Append(f, op) : f \in chains }
        \cup { Append(<< f[3], f[2], f[1] >>, op) : f \in chains }

\* documents whose fields carry arguments: the top-level field, leaves,
\* and composite fields with and without an entry the compiler finds in the
\* foreign-key dictionary; one argument the field's type does not have
ArgumentDocuments ==
    LET with(arg) == { << >>, << Argument(arg, TRUE) >> } IN
    { << OperationDefinition("Query",
           << FieldWith(a1, "tx",
                << FieldWith(a2, "id", << >>),
                   FieldWith(a3, "block",
                      << FieldWith(a4, "height", << >>) >>) >>) >>) >> :
          a1 \in with("first"), a2 \in with("id"), a3 \in with("order"),
          a4 \in with("height") }
    \cup
    { << OperationDefinition("Query",
           << Field("block",
                << FieldWith(a1, "firstTx", << Field("id", << >>) >>),
                   FieldWith(a2, "id", << >>) >>) >>) >> :
          a1 \in with("timestamp"), a2 \in with("id") }
    \cup
    { << OperationDefinition("Query",
           << Field("tx", << FieldWith(<< Argument("height", FALSE) >>,
                                       "id", << >>) >>) >>) >> }

\* documents that spread a fragment on Block inside a field of type
\* Block! or of type Block
NonNullDocuments ==
    { << FragmentDefinition("B", "Block", body),
         OperationDefinition("Query",
           << Field("tx", << Field(name, << FragmentSpread("B") >>) >>
                          \o rest) >>) >> :
          body \in { << Field("id", << >>) >>,
                     << Field("height", << >>), Field("id", << >>) >> },
          name \in { "head", "block", "origin" },
          rest \in { << >>, << Field("timestamp", << >>) >> } }

Documents ==
    TreeDocuments \cup FragmentDocuments \cup AliasDocuments
    \cup MutualDocuments \cup ReferenceDocuments \cup ChainDocuments
    \cup ArgumentDocuments \cup NonNullDocuments

(* ---------------------------------------------------------------------- *)
(* GraphqlQueryBuilder::build (graphql.rs:503-508) followed by            *)
(* GraphqlQuery::parse (graphql.rs:463-471)                               *)
(* ---------------------------------------------------------------------- *)
\* GraphqlQueryBuilder::new on a query text that parses
GraphqlInit ==
    /\ SchedulerOff
    /\ CreationOff
    /\ CompilerOff
    /\ ConnectionOff
    /\ schema = TestSchema
    /\ document \in Documents
    /\ gql_pc = "fragments"
    /\ fragments = << >>
    /\ to_resolve = << >>
    /\ passes = 0
    /\ build_result = None
    /\ operations = << >>
    /\ todo = << >>
    /\ top = << >>
    /\ queue = << >>
    /\ entities = << >>
    /\ nested_entity_stack = << >>
    /\ last_seen_entities_len = 0
    /\ elements = << >>
    /\ joins = << >>
    /\ query_params = << >>
    /\ queries = << >>

buildvars == << fragments, to_resolve, passes, build_result, operations >>
walkvars == << top, queue, entities, nested_entity_stack,
               last_seen_entities_len, elements, joins, query_params >>

\* `?` in build: the error is what build returns
BuildFails(error) ==
    /\ build_result' = Some(error)
    /\ gql_pc' = "done"
    /\ fragments' = << >>
    /\ to_resolve' = << >>

\* process_fragments, lines 577-603
ProcessFragmentsCollect ==
    /\ gql_pc = "fragments"
    /\ LET r == CollectFragments(schema, document, 1, << >>, << >>) IN
       IF IsOk(r)
       THEN /\ fragments' = r.val.fragments
            /\ to_resolve' = r.val.to_resolve
            /\ gql_pc' = "resolve"
            /\ UNCHANGED build_result
       ELSE BuildFails(r.err[1])
    /\ UNCHANGED << vars, creation, compiler, connection, schema, document, passes, operations,
                    todo, walkvars, queries >>

\* variant of the pass that goes on as long as fragments remain
ProcessFragmentsPassUnchecked ==
    /\ gql_pc = "resolve"
    /\ LET r == ResolvePass(schema, to_resolve, 1, fragments, 0, << >>) IN
       IF ~IsOk(r)
       THEN BuildFails(r.err[1])
       ELSE /\ fragments' = r.val.fragments
            /\ to_resolve' = r.val.remaining
            /\ gql_pc' = IF r.val.remaining = << >> THEN "operations"
                                                    ELSE "resolve"
            /\ UNCHANGED build_result
    /\ passes' = passes + 1
    /\ UNCHANGED << vars, creation, compiler, connection, schema, document,
                    operations, todo, walkvars, queries >>

\* process_fragments, one iteration of the `loop` of lines 605-626
ProcessFragmentsPass ==
    /\ gql_pc = "resolve"
    /\ LET r == ResolvePass(schema, to_resolve, 1, fragments, 0, << >>) IN
       IF ~IsOk(r)
       THEN BuildFails(r.err[1])
       ELSE IF r.val.remaining # << >> /\ r.val.resolved = 0
       THEN BuildFails("FragmentResolverFailed")
       ELSE /\ fragments' = r.val.fragments
            /\ to_resolve' = r.val.remaining
            /\ gql_pc' = IF r.val.remaining = << >> THEN "operations"
                                                    ELSE "resolve"
            /\ UNCHANGED build_result
    /\ passes' = passes + 1
    /\ UNCHANGED << vars, creation, compiler, connection, schema, document, operations, todo,
                    walkvars, queries >>

\* the selections GraphqlQuery::parse visits: those of every operation, in
\* order (flat_map of line 467 over the loop of line 248)
RECURSIVE TopSelections(_)
TopSelections(ops) ==
    IF ops = << >>
    THEN << >>
    ELSE Head(ops).selections.selections \o TopSelections(Tail(ops))

\* process_operations (lines 559-574) and the end of build (line 507)
ProcessOperations ==
    /\ gql_pc = "operations"
    /\ LET r == process_operations(schema, document, 1, fragments, << >>) IN
       IF IsOk(r)
       THEN /\ operations' = r.val
            /\ todo' = TopSelections(r.val)
            /\ build_result' = Some("Ok")
            /\ gql_pc' = "parse"
       ELSE /\ build_result' = Some(r.err[1])
            /\ gql_pc' = "done"
            /\ UNCHANGED << operations, todo >>
    /\ UNCHANGED << vars, creation, compiler, connection, schema, document, fragments, to_resolve,
                    passes, walkvars, queries >>

\* format!("{namespace}_{identifier}.{entity_name}")
Table(s, entity_name) == << s.namespace, s.identifier, entity_name >>

\* format!("{namespace}_{identifier}.{entity_name}.{field_name}")
Column(s, entity_name, field_name) ==
    << s.namespace, s.identifier, entity_name, field_name >>

\* QueryElement (Field, ObjectOpeningBoundary, ObjectClosingBoundary)
ElementField(key, value) == [ kind |-> "Field", key |-> key, value |-> value ]
ObjectOpeningBoundary(key) ==
    [ kind |-> "ObjectOpeningBoundary", key |-> key, value |-> << >> ]
ObjectClosingBoundary ==
    [ kind |-> "ObjectClosingBoundary", key |-> "", value |-> << >> ]

\* Vec reversed by .drain(..).rev()
Reverse(s) == [ i \in 1..Len(s) |-> s[Len(s) + 1 - i] ]

\* variant that makes the vector one element short
RepeatShort(x, n) == [ i \in 1..(n - 1) |-> x ]

\* vec![x; n]
Repeat(x, n) == [ i \in 1..n |-> x ]

\* Vec::pop: the vector without its last element
Front(s) == SubSeq(s, 1, Len(s) - 1)
Last(s) == s[Len(s)]

\* variant that ignores the alias
UnwrapOrName(alias, field_name) == field_name

\* alias.unwrap_or(field_name)
UnwrapOr(alias, field_name) == IF alias = None THEN field_name ELSE alias[1]

\* QueryParams::add_params(filters, table) when filters is not empty
AddParams(params, filters, table) ==
    IF filters = << >>
    THEN params
    ELSE Append(params, [ filters |-> filters, table |-> table ])

\* HashMap::get on schema.foreign_keys and on its field maps
ForeignKey(s, entity_name, field_name) ==
    IF to_lowercase(entity_name) \in DOMAIN s.foreign_keys
    THEN LET field_to_foreign_key == s.foreign_keys[to_lowercase(entity_name)]
         IN  IF to_lowercase(field_name) \in DOMAIN field_to_foreign_key
             THEN Some(field_to_foreign_key[to_lowercase(field_name)])
             ELSE None
    ELSE None

\* QueryJoinNode { dependencies, dependents }
NoJoinNode == [ dependencies |-> << >>, dependents |-> << >> ]
JoinNode(j, table) == IF table \in DOMAIN j THEN j[table] ELSE NoJoinNode

\* lines 346-372: the dependency of the referencing table
AddDependency(j, c) ==
    LET node == JoinNode(j, c.referencing_key_table) IN
    MapInsert(j, c.referencing_key_table,
              [ node EXCEPT !.dependencies =
                    MapInsert(node.dependencies, c.primary_key_table, c) ])

\* variant that keeps the dependent a table already has
AddDependentOnce(j, c) ==
    LET node == JoinNode(j, c.primary_key_table) IN
    IF c.referencing_key_table \in DOMAIN node.dependents
    THEN j
    ELSE MapInsert(j, c.primary_key_table,
                   [ node EXCEPT !.dependents =
                         MapInsert(node.dependents, c.referencing_key_table, c) ])

\* lines 378-403: the dependent of the primary-key table
AddDependent(j, c) ==
    LET node == JoinNode(j, c.primary_key_table) IN
    MapInsert(j, c.primary_key_table,
              [ node EXCEPT !.dependents =
                    MapInsert(node.dependents, c.referencing_key_table, c) ])

\* Operation::parse, lines 248-288: the next top-level selection
ParseSelection ==
    /\ gql_pc = "parse"
    /\ todo # << >>
    /\ todo' = Tail(todo)
    /\ LET selection == Head(todo) IN
       IF selection.kind = "Field"
       THEN LET n == Len(selection.sub.selections) IN
            /\ top' = [ entity_name |-> selection.name,
                        alias |-> selection.alias ]
            /\ entities' = Reverse(Repeat(selection.name, n))
            /\ queue' = Reverse(selection.sub.selections)
            /\ query_params' = AddParams(<< >>, selection.params,
                                         Table(schema, selection.name))
            /\ last_seen_entities_len' = n
            /\ gql_pc' = "walk"
            /\ UNCHANGED << nested_entity_stack, elements, joins >>
       ELSE \* `if let Selection::Field(..)` does not match: no query
            /\ UNCHANGED << walkvars, gql_pc >>
    /\ UNCHANGED << vars, creation, compiler, connection, schema, document, buildvars, queries >>

\* Operation::parse, lines 290-430: one iteration of `while let`
ParseStep ==
    /\ gql_pc = "walk"
    /\ queue # << >>
    /\ IF entities = << >>
       THEN \* entities.pop().unwrap() on an empty vector
            /\ gql_pc' = "panicked"
            /\ UNCHANGED walkvars
       ELSE
       LET current == Last(queue)
           entity_name == Last(entities)
           entities1 == Front(entities)
           leaves == /\ nested_entity_stack # << >>
                     /\ Len(entities1) < last_seen_entities_len
                     /\ Last(nested_entity_stack) # entity_name
           stack1 == IF leaves THEN Front(nested_entity_stack)
                               ELSE nested_entity_stack
           elements1 == IF leaves THEN Append(elements, ObjectClosingBoundary)
                                  ELSE elements
       IN
       /\ last_seen_entities_len' = Len(entities1)
       /\ UNCHANGED << gql_pc, top >>
       /\ IF current.kind # "Field"
          THEN /\ queue' = Front(queue)
               /\ entities' = entities1
               /\ nested_entity_stack' = stack1
               /\ elements' = elements1
               /\ UNCHANGED << joins, query_params >>
          ELSE IF current.sub.selections = << >>
          THEN /\ queue' = Front(queue)
               /\ entities' = entities1
               /\ nested_entity_stack' = stack1
               /\ elements' = Append(elements1,
                      ElementField(UnwrapOr(current.alias, current.name),
                                   Column(schema, entity_name, current.name)))
               /\ query_params' = AddParams(query_params, current.params,
                                            Table(schema, entity_name))
               /\ UNCHANGED joins
          ELSE LET fk == ForeignKey(schema, entity_name, current.name)
                   join_condition ==
                       [ referencing_key_table |-> Table(schema, entity_name),
                         referencing_key_col |-> current.name,
                         primary_key_table |-> Table(schema, fk[1][1]),
                         primary_key_col |-> fk[1][2] ]
                   new_entity ==
                       IF fk # None /\ fk[1][1] # current.name
                       THEN fk[1][1] ELSE current.name
                   n == Len(current.sub.selections)
               IN
               /\ joins' = IF fk = None THEN joins
                           ELSE AddDependent(AddDependency(joins, join_condition),
                                             join_condition)
               /\ query_params' =
                      IF fk = None THEN query_params
                      ELSE AddParams(query_params, current.params,
                                     Table(schema, fk[1][1]))
               /\ entities' = entities1 \o Repeat(new_entity, n)
               /\ nested_entity_stack' = Append(stack1, new_entity)
               /\ elements' = Append(elements1,
                      ObjectOpeningBoundary(UnwrapOr(current.alias, current.name)))
               /\ queue' = Front(queue) \o current.sub.selections
    /\ UNCHANGED << vars, creation, compiler, connection, schema, document, buildvars, todo, queries >>

\* variant that closes one object at most when the queue has drained
FinalClosingsOne(stack) ==
    Repeat(ObjectClosingBoundary, IF stack = << >> THEN 0 ELSE 1)

\* lines 432-440: one closing boundary per entity left on the stack
FinalClosings(stack) == Repeat(ObjectClosingBoundary, Len(stack))

\* Operation::parse, lines 432-451: the queue has drained
ParseFinish ==
    /\ gql_pc = "walk"
    /\ queue = << >>
    /\ queries' = Append(queries,
           [ elements |-> elements \o FinalClosings(nested_entity_stack),
             joins |-> joins,
             namespace_identifier |-> << schema.namespace, schema.identifier >>,
             entity_name |-> top.entity_name,
             query_params |-> query_params,
             alias |-> top.alias ])
    /\ gql_pc' = "parse"
    \* the locals of the iteration go out of scope
    /\ top' = << >>
    /\ entities' = << >>
    /\ nested_entity_stack' = << >>
    /\ last_seen_entities_len' = 0
    /\ elements' = << >>
    /\ joins' = << >>
    /\ query_params' = << >>
    /\ UNCHANGED << vars, creation, compiler, connection, schema, document, buildvars, todo, queue >>

\* GraphqlQuery::parse returns the queries
ParseReturn ==
    /\ gql_pc = "parse"
    /\ todo = << >>
    /\ gql_pc' = "done"
    /\ UNCHANGED << vars, creation, compiler, connection, schema, document, buildvars, todo,
                    walkvars, queries >>

GraphqlNext ==
    \/ ProcessFragmentsCollect
    \/ ProcessFragmentsPass
    \/ ProcessOperations
    \/ ParseSelection
    \/ ParseStep
    \/ ParseFinish
    \/ ParseReturn

GraphqlSpec == GraphqlInit /\ [][GraphqlNext]_<< vars, creation, graphql, compiler, connection >>

(* ---------------------------------------------------------------------- *)
(* Schema compiler (packages/fuel-indexer-schema/src/db/tables.rs)        *)
(* ---------------------------------------------------------------------- *)
\* the schema document as parse_schema returns it: a definition is a
\* Definition::SchemaDefinition or a Definition::TypeDefinition, which is
\* an object type or a type of another kind (scalar, enum, ...)
SchemaDefinition(query) ==
    [ def |-> "Schema", name |-> "", query |-> query, fields |-> << >> ]
ObjectType(name, fields) ==
    [ def |-> "Object", name |-> name, query |-> None, fields |-> fields ]
ScalarType(name) ==
    [ def |-> "Scalar", name |-> name, query |-> None, fields |-> << >> ]

\* a stretch of the schema text that does not conform to the grammar
Malformed ==
    [ def |-> "Malformed", name |-> "", query |-> None, fields |-> << >> ]

\* parse_schema: the document of a text, given as the definitions it is
\* made of, or a parse error
parse_schema(text) ==
    IF \E i \in DOMAIN text : text[i].def = "Malformed"
    THEN Err("ParseError")
    ELSE Ok(text)

\* the directives of a field: @indexed, @unique, @join(on: X)
Directives(indexed, unique, join) ==
    [ indexed |-> indexed, unique |-> unique, join |-> join ]
NoDirectives == Directives(FALSE, FALSE, None)

\* Field { name, field_type, directives }: the type is
\* Type::NamedType(type_name), inside a Type::NonNullType when non_null,
\* or a Type::ListType when list
SchemaField(name, type_name, non_null, directives) ==
    [ name |-> name, type_name |-> type_name, non_null |-> non_null,
      list |-> FALSE, directives |-> directives ]
ListField(name, type_name) ==
    [ name |-> name, type_name |-> type_name, non_null |-> FALSE,
      list |-> TRUE, directives |-> NoDirectives ]

\* the leaf types of the base schema (build_schema_objects_set of
\* BASE_SCHEMA)
Primitives == { "ID", "Address", "Bytes32", "UInt8", "Int8" }

\* Type::to_string
TypeToString(field) ==
    CASE ~field.non_null -> field.type_name
      [] field.type_name = "ID" -> "ID!"
      [] field.type_name = "Address" -> "Address!"
      [] field.type_name = "Bytes32" -> "Bytes32!"
      [] field.type_name = "Borrower" -> "Borrower!"
      [] field.type_name = "Lender" -> "Lender!"
      [] OTHER -> field.type_name

\* a panic of the compiler
Panic == Err("panic")

\* SchemaBuilder::process_type (lines 179-193): (ColumnType, nullable)
process_type(field) ==
    IF field.list
    THEN Panic
    ELSE Ok([ typ |-> IF field.type_name \notin Primitives
                      THEN "ForeignKey" ELSE field.type_name,
              nullable |-> ~field.non_null ])

\* get_column_type (lines 497-511)
get_column_type(field) ==
    IF field.list
    THEN Panic
    ELSE Ok(IF field.type_name \notin Primitives
            THEN "ForeignKey" ELSE field.type_name)

\* field_type_table_name: the table of the type a field refers to
field_type_table_name(field) == to_lowercase(field.type_name)

\* build_schema_fields_and_types_map: the type of field `name` of object
\* type `type_name` in the document
FieldTypeIn(doc, type_name, name) ==
    LET objects == { d \in Range(doc) :
                        d.def = "Object" /\ d.name = type_name }
        found == { f \in UNION { Range(d.fields) : d \in objects } :
                        f.name = name }
    IN  IF found = {} THEN ""
        ELSE (CHOOSE f \in found : TRUE).type_name

\* get_join_directive_info: the column a reference joins on is the one
\* named by @join(on: X), and `id` without the directive
get_join_directive_info(field, doc) ==
    LET reference_field_name ==
            IF field.directives.join = None THEN "id"
            ELSE field.directives.join[1]
    IN  [ reference_field_name |-> reference_field_name,
          field_type_name |-> field.type_name,
          reference_field_type_name |->
              FieldTypeIn(doc, field.type_name, reference_field_name) ]

\* get_index_directive: Option<directives::Index>
get_index_directive(field) ==
    IF field.directives.indexed
    THEN Some([ column_name |-> field.name, method |-> "btree" ])
    ELSE None

\* get_unique_directive
get_unique_directive(field) == field.directives.unique

\* get_foreign_keys, line 434: the types the dictionary leaves out
SkippedAsRoot(doc, o) == to_lowercase(o.name) = "queryroot"

\* get_foreign_keys (lines 427-475): FieldKeysFrom is the inner loop from
\* field j on, ForeignKeysFrom the outer loop from definition i on
RECURSIVE FieldKeysFrom(_, _, _, _)
FieldKeysFrom(doc, o, j, foreign_keys) ==
    IF j > Len(o.fields)
    THEN Ok(foreign_keys)
    ELSE LET field == o.fields[j]
             typ == get_column_type(field)
         IN  IF ~IsOk(typ)
             THEN Panic
             ELSE IF typ.val # "ForeignKey"
             THEN FieldKeysFrom(doc, o, j + 1, foreign_keys)
             ELSE LET info == get_join_directive_info(field, doc)
                      owner == to_lowercase(o.name)
                      foreign_keys_for_field ==
                          IF owner \in DOMAIN foreign_keys
                          THEN foreign_keys[owner] ELSE << >>
                  IN  FieldKeysFrom(doc, o, j + 1,
                          MapInsert(foreign_keys, owner,
                              MapInsert(foreign_keys_for_field, field.name,
                                  << field_type_table_name(field),
                                     info.reference_field_name >>)))

RECURSIVE ForeignKeysFrom(_, _, _)
ForeignKeysFrom(doc, i, foreign_keys) ==
    IF i > Len(doc)
    THEN Ok(foreign_keys)
    ELSE LET o == doc[i] IN
         IF o.def # "Object" \/ SkippedAsRoot(doc, o)
         THEN ForeignKeysFrom(doc, i + 1, foreign_keys)
         ELSE LET r == FieldKeysFrom(doc, o, 1, foreign_keys) IN
              IF IsOk(r) THEN ForeignKeysFrom(doc, i + 1, r.val) ELSE r

get_foreign_keys(doc) == ForeignKeysFrom(doc, 1, << >>)

\* DbType
DbTypes == { "Postgres", "Sqlite" }

\* SchemaBuilder::new (lines 38-60)
SchemaBuilderNew(namespace, identifier, version, db_type) ==
    [ db_type |-> db_type, statements |-> << >>, type_ids |-> << >>,
      columns |-> << >>, foreign_keys |-> << >>, indices |-> << >>,
      namespace |-> namespace, identifier |-> identifier,
      version |-> version, types |-> {}, fields |-> << >>,
      query |-> "", query_fields |-> << >> ]

\* SchemaBuilder::namespace (lines 291-293)
Namespace(self) == << self.namespace, self.identifier >>

\* a DDL statement: its kind, the table and the columns it is about
Statement(kind, namespace, table, columns) ==
    [ kind |-> kind, namespace |-> namespace, table |-> table,
      columns |-> columns ]

\* NewColumn
NewColumn(tid, pos, name, column_type, graphql_type, nullable, unique) ==
    [ type_id |-> tid, column_position |-> pos, column_name |-> name,
      column_type |-> column_type, graphql_type |-> graphql_type,
      nullable |-> nullable, unique |-> unique ]

\* variant whose hash is seeded anew by every builder
type_id_seeded(namespace, name) == << namespace, name, previous = None >>

\* type_id(namespace, name): a hash of the two
type_id(namespace, name) == << namespace, name >>

\* variant that numbers the object column from one
object_column_from_one(tid, frags) ==
    NewColumn(tid, Len(frags) + 1, "object", "Object", "__", FALSE, FALSE)

\* generate_columns, lines 274-283: the column that holds the entity
object_column(tid, frags) ==
    NewColumn(tid, Len(frags), "object", "Object", "__", FALSE, FALSE)

\* generate_columns (lines 195-289): ColumnsFrom is the loop from position
\* pos on, followed by the object column; it returns the builder and the
\* column fragments of the table
RECURSIVE ColumnsFrom(_, _, _, _, _, _, _)
ColumnsFrom(self, doc, obj, tid, table_name, pos, frags) ==
    IF pos >= Len(obj.fields)
    THEN LET column == object_column(tid, frags) IN
         Ok([ self |-> [ self EXCEPT !.columns = Append(@, column) ],
              columns |-> Append(frags, column) ])
    ELSE LET field == obj.fields[pos + 1]
             typ == process_type(field)
             unique == get_unique_directive(field)
         IN
         IF ~IsOk(typ)
         THEN Panic
         ELSE IF typ.val.typ = "ForeignKey"
         THEN LET info == get_join_directive_info(field, doc)
                  fk == [ db_type |-> self.db_type,
                          namespace |-> Namespace(self),
                          table_name |-> table_name,
                          column_name |-> field.name,
                          reference_table_name |->
                              field_type_table_name(field),
                          reference_column_name |->
                              info.reference_field_name,
                          reference_column_type |->
                              info.reference_field_type_name ]
                  column == NewColumn(tid, pos, field.name,
                                      info.reference_field_type_name,
                                      info.field_type_name,
                                      typ.val.nullable, unique)
              IN  ColumnsFrom([ self EXCEPT
                                  !.columns = Append(@, column),
                                  !.foreign_keys = Append(@, fk) ],
                              doc, obj, tid, table_name, pos + 1,
                              Append(frags, column))
         ELSE LET column == NewColumn(tid, pos, field.name,
                                      typ.val.typ, TypeToString(field),
                                      typ.val.nullable, unique)
                  index == get_index_directive(field)
                  indices ==
                      IF index = None
                      THEN self.indices
                      ELSE Append(self.indices,
                               [ db_type |-> self.db_type,
                                 table_name |-> table_name,
                                 namespace |-> Namespace(self),
                                 method |-> index[1].method,
                                 unique |-> unique,
                                 column_name |-> index[1].column_name ])
              IN  ColumnsFrom([ self EXCEPT
                                  !.indices = indices,
                                  !.columns = Append(@, column) ],
                              doc, obj, tid, table_name, pos + 1,
                              Append(frags, column))

generate_columns(self, doc, obj, tid, table_name) ==
    ColumnsFrom(self, doc, obj, tid, table_name, 0, << >>)

\* map_fields (lines 301-306)
map_fields(fields) ==
    [ name \in { f.name : f \in Range(fields) } |->
        TypeToString(CHOOSE f \in Range(fields) : f.name = name) ]

\* variant that takes the query root to be the type named QueryRoot
IsNamedQueryRoot(o, root) == to_lowercase(o.name) = "queryroot"

\* generate_table_sql, line 314
IsQueryRoot(o, root) == o.name = root

\* SchemaBuilder::generate_table_sql (lines 295-342)
generate_table_sql(self, doc, root, typ) ==
    IF typ.def # "Object"
    THEN Panic
    ELSE LET o == typ
             self1 == [ self EXCEPT
                          !.types = @ \cup { o.name },
                          !.fields = MapInsert(@, o.name,
                                               map_fields(o.fields)) ]
         IN
         IF IsQueryRoot(o, root)
         THEN Ok([ self1 EXCEPT
                     !.query_fields = MapInsert(@, root,
                                                map_fields(o.fields)) ])
         ELSE LET table_name == to_lowercase(o.name)
                  id == type_id(Namespace(self1), o.name)
                  columns == generate_columns(self1, doc, o, id, table_name)
              IN
              IF ~IsOk(columns)
              THEN Panic
              ELSE Ok([ columns.val.self EXCEPT
                          !.statements =
                              Append(@, Statement("CREATE TABLE",
                                         Namespace(self1), table_name,
                                         columns.val.columns)),
                          !.type_ids =
                              Append(@, [ id |-> id,
                                          schema_version |-> self1.version,
                                          schema_name |-> self1.namespace,
                                          schema_identifier |->
                                              self1.identifier,
                                          graphql_name |-> o.name,
                                          table_name |-> table_name ]) ])

\* build, lines 76-90: the query of the first schema definition that has one
DeclaredQuery(doc) ==
    LET with_query == SelectSeq(doc,
                          LAMBDA d : d.def = "Schema" /\ d.query # None)
    IN  IF with_query = << >> THEN None ELSE Head(with_query).query

(* ---------------------------------------------------------------------- *)
(* The schemas the compiler is run on                                     *)
(* ---------------------------------------------------------------------- *)
\* type Borrower { id: ID!  account: Address! [@indexed] [@unique] }
Borrower(indexed, unique) ==
    ObjectType("Borrower",
        << SchemaField("id", "ID", TRUE, NoDirectives),
           SchemaField("account", "Address", TRUE,
                       Directives(indexed, unique, None)) >>)

\* type Lender { id: ID!  borrower: Borrower[!] [@join(on: X)] [@indexed]
\*               hash: Bytes32! @indexed }
Lender(non_null, join, indexed) ==
    ObjectType("Lender",
        << SchemaField("id", "ID", TRUE, NoDirectives),
           SchemaField("borrower", "Borrower", non_null,
                       Directives(indexed, FALSE, join)),
           SchemaField("hash", "Bytes32", TRUE,
                       Directives(TRUE, FALSE, None)) >>)

\* the query root type: type <name> { borrower: Borrower  lender: Lender }
RootType(name) ==
    ObjectType(name,
        << SchemaField("borrower", "Borrower", FALSE, NoDirectives),
           SchemaField("lender", "Lender", FALSE, NoDirectives) >>)

\* names the schema gives its query root
RootNames == { "QueryRoot", "Query" }

\* schemas with a query root and two entity types, the root type defined
\* before the entity types or between them
EntitySchemas ==
    UNION { { << SchemaDefinition(Some(root)), RootType(root), b, l >>,
              << SchemaDefinition(Some(root)), b, RootType(root), l >> } :
            root \in RootNames,
            b \in { Borrower(i, u) : i \in BOOLEAN, u \in BOOLEAN },
            l \in { Lender(n, j, i) : n \in BOOLEAN,
                                      j \in { None, Some("account") },
                                      i \in BOOLEAN } }

\* schemas the compiler stops on: text that does not parse, no schema
\* definition, a type that is not an object, a list field, a query root that
\* is declared but not defined
BrokenSchemas ==
    { << SchemaDefinition(Some("QueryRoot")), RootType("QueryRoot"),
         Malformed >>,
      << RootType("QueryRoot"), Borrower(FALSE, FALSE) >>,
      << SchemaDefinition(None), RootType("QueryRoot") >>,
      << SchemaDefinition(Some("QueryRoot")), RootType("QueryRoot"),
         Borrower(TRUE, FALSE), ScalarType("Amount") >>,
      << SchemaDefinition(Some("QueryRoot")), RootType("QueryRoot"),
         ObjectType("Lender",
             << SchemaField("id", "ID", TRUE, NoDirectives),
                ListField("borrowers", "Borrower") >>) >>,
      << SchemaDefinition(Some("QueryRoot")), Borrower(TRUE, FALSE) >> }

SchemaDocuments == EntitySchemas \cup BrokenSchemas

(* ---------------------------------------------------------------------- *)
(* SchemaBuilder::new, build and commit_metadata, Schema::load_from_db    *)
(* ---------------------------------------------------------------------- *)
\* SchemaBuilder::new, and the schema text build is called with
CompilerInit ==
    /\ SchedulerOff
    /\ CreationOff
    /\ GraphqlOff
    /\ ConnectionOff
    /\ ast \in SchemaDocuments
    /\ \E db_type \in DbTypes :
           sb = SchemaBuilderNew("test_namespace", "index1", "v1", db_type)
    /\ sb_pc = "new"
    /\ sb_index = 0
    /\ executed = << >>
    /\ commit_schema = None
    /\ loaded = None
    /\ previous = None

\* build, lines 62-92: the CREATE SCHEMA statement, the parse and the
\* query root
BuildBegin ==
    /\ sb_pc = "new"
    /\ sb' = IF sb.db_type = "Postgres"
             THEN [ sb EXCEPT !.statements =
                        Append(@, Statement("CREATE SCHEMA", Namespace(sb),
                                            "", << >>)) ]
             ELSE sb
    /\ IF ~IsOk(parse_schema(ast)) \/ DeclaredQuery(ast) = None
       THEN \* panic!("Error parsing graphql schema ..") or
            \* query.cloned().expect(..) on None
            /\ sb_pc' = "panicked"
            /\ UNCHANGED sb_index
       ELSE /\ sb_pc' = "definitions"
            /\ sb_index' = 1
    /\ UNCHANGED << vars, creation, graphql, connection, ast, previous,
                    executed, commit_schema,
                    loaded >>

\* build, lines 94-98: one iteration of the loop over the definitions
GenerateTableSql ==
    /\ sb_pc = "definitions"
    /\ sb_index <= Len(ast)
    /\ LET def == ast[sb_index] IN
       IF def.def = "Schema"
       THEN /\ sb_index' = sb_index + 1
            /\ UNCHANGED << sb, sb_pc >>
       ELSE LET r == generate_table_sql(sb, ast, DeclaredQuery(ast)[1], def)
            IN  IF IsOk(r)
                THEN /\ sb' = r.val
                     /\ sb_index' = sb_index + 1
                     /\ UNCHANGED sb_pc
                ELSE /\ sb_pc' = "panicked"
                     /\ UNCHANGED << sb, sb_index >>
    /\ UNCHANGED << vars, creation, graphql, connection, ast, previous,
                    executed, commit_schema,
                    loaded >>

\* build, lines 100-103
BuildEnd ==
    /\ sb_pc = "definitions"
    /\ sb_index > Len(ast)
    /\ sb' = [ sb EXCEPT !.query = DeclaredQuery(ast)[1] ]
    /\ sb_pc' = "built"
    /\ sb_index' = 0
    /\ UNCHANGED << vars, creation, graphql, connection, ast, previous,
                    executed, commit_schema,
                    loaded >>

\* the caller compiles the same text once more: SchemaBuilder::new with
\* the same namespace, identifier, version and database, then build
BuildAgain ==
    /\ sb_pc = "built"
    /\ previous = None
    /\ previous' = Some(sb)
    /\ sb' = SchemaBuilderNew(sb.namespace, sb.identifier, sb.version,
                              sb.db_type)
    /\ sb_pc' = "new"
    /\ sb_index' = 0
    /\ UNCHANGED << vars, creation, graphql, connection, ast, executed, commit_schema,
                    loaded >>

\* variant that creates the indices before the foreign keys
CommitLoopsIndicesFirst == << "statements", "indices", "foreign_keys" >>

\* commit_metadata, lines 153-163: the three loops, in order
CommitLoops == << "statements", "foreign_keys", "indices" >>

\* what follows a loop of commit_metadata
LoopAfter(loop) ==
    LET i == CHOOSE k \in DOMAIN CommitLoops : CommitLoops[k] = loop IN
    IF i < Len(CommitLoops) THEN CommitLoops[i + 1] ELSE "insert"

\* a query the database rejects: `?` returns the error
CommitFails ==
    /\ sb_pc' = "commit_failed"
    /\ sb_index' = 0

\* commit_metadata, lines 129-151: the graph root and its columns
CommitRoot ==
    /\ sb_pc = "built"
    /\ \/ CommitFails
       \/ IF sb.query \in DOMAIN sb.query_fields
          THEN /\ sb_pc' = CommitLoops[1]
               /\ sb_index' = 1
          ELSE \* query_fields.get(&query).expect("No query root.")
               /\ sb_pc' = "panicked"
               /\ UNCHANGED sb_index
    /\ UNCHANGED << vars, creation, graphql, connection, ast, previous,
                    sb, executed, commit_schema,
                    loaded >>

\* one iteration of a loop of commit_metadata, which executes the
\* statements `ddl` in order, or the end of the loop
ExecuteQuery(loop, ddl) ==
    /\ sb_pc = loop
    /\ IF sb_index > Len(ddl)
       THEN /\ sb_pc' = LoopAfter(loop)
            /\ sb_index' = 1
            /\ UNCHANGED executed
       ELSE \/ /\ CommitFails
               /\ UNCHANGED executed
            \/ /\ executed' = Append(executed, ddl[sb_index])
               /\ sb_index' = sb_index + 1
               /\ UNCHANGED sb_pc
    /\ UNCHANGED << vars, creation, graphql, connection, ast, previous,
                    sb, commit_schema, loaded >>

\* ForeignKey::create_statement
ForeignKeyStatement(fk) ==
    Statement("ADD CONSTRAINT", fk.namespace, fk.table_name,
              << fk.column_name >>)

\* ColumnIndex::create_statement
IndexStatement(idx) ==
    Statement("CREATE INDEX", idx.namespace, idx.table_name,
              << idx.column_name >>)

\* commit_metadata, lines 153-155
ExecuteStatement ==
    ExecuteQuery("statements", sb.statements)

\* commit_metadata, lines 157-159
ExecuteForeignKey ==
    ExecuteQuery("foreign_keys",
        [ i \in DOMAIN sb.foreign_keys |->
            ForeignKeyStatement(sb.foreign_keys[i]) ])

\* commit_metadata, lines 161-163
ExecuteIndex ==
    ExecuteQuery("indices",
        [ i \in DOMAIN sb.indices |-> IndexStatement(sb.indices[i]) ])

\* Schema { version, namespace, identifier, query, types, fields,
\* foreign_keys } (lines 345-353)
SchemaOf(self, types, fields, foreign_keys) ==
    [ version |-> self.version, namespace |-> self.namespace,
      identifier |-> self.identifier, query |-> self.query,
      types |-> types, fields |-> fields, foreign_keys |-> foreign_keys ]

\* commit_metadata, lines 165-176: the type ids and the columns are stored
\* and the Schema is returned
CommitEnd ==
    /\ sb_pc = "insert"
    /\ \/ /\ CommitFails
          /\ UNCHANGED commit_schema
       \/ /\ commit_schema' = Some(SchemaOf(sb, sb.types, sb.fields, << >>))
          /\ sb_pc' = "committed"
          /\ sb_index' = 0
    /\ UNCHANGED << vars, creation, graphql, connection, ast, previous,
                    sb, executed, loaded >>

\* the columns stored for a type id (queries::list_column_by_id)
StoredFields(self, id) ==
    LET stored == { c \in Range(self.columns) : c.type_id = id } IN
    [ name \in { c.column_name : c \in stored } |->
        (CHOOSE c \in stored : c.column_name = name).graphql_type ]

\* Schema::load_from_db (lines 356-407) on the metadata commit_metadata
\* stored: the root, its columns, the type ids and their columns
LoadFromDb ==
    /\ sb_pc = "committed"
    /\ LET foreign_keys == get_foreign_keys(ast) IN
       IF IsOk(foreign_keys)
       THEN /\ loaded' =
                Some(SchemaOf(sb,
                    { sb.query } \cup
                        { t.graphql_name : t \in Range(sb.type_ids) },
                    [ name \in { sb.query } \cup
                          { t.graphql_name : t \in Range(sb.type_ids) } |->
                        IF name = sb.query
                        THEN sb.query_fields[sb.query]
                        ELSE StoredFields(sb,
                                 (CHOOSE t \in Range(sb.type_ids) :
                                      t.graphql_name = name).id) ],
                    foreign_keys.val))
            /\ sb_pc' = "loaded"
       ELSE /\ sb_pc' = "panicked"
            /\ UNCHANGED loaded
    /\ UNCHANGED << vars, creation, graphql, connection, ast, previous,
                    sb, sb_index, executed,
                    commit_schema >>

CompilerNext ==
    \/ BuildBegin
    \/ GenerateTableSql
    \/ BuildEnd
    \/ BuildAgain
    \/ CommitRoot
    \/ ExecuteStatement
    \/ ExecuteForeignKey
    \/ ExecuteIndex
    \/ CommitEnd
    \/ LoadFromDb

CompilerSpec ==
    CompilerInit /\ [][CompilerNext]_<< vars, creation, graphql, compiler, connection >>

(* ---------------------------------------------------------------------- *)
(* attempt_database_connection (fuel-indexer-lib/src/utils.rs,            *)
(* lines 125-157)                                                         *)
(* ---------------------------------------------------------------------- *)
\* the errors a connection attempt ends with
ConnectErrors == { "refused", "timeout", "auth" }

\* the connection the k-th call of fut() makes
Pool(k) == << "pool", k >>

\* what the k-th call of fut() resolves to: the connection it made, or an
\* error
FutOutcomes(k) == { Ok(Pool(k)) } \cup { Err(e) : e \in ConnectErrors }

\* lines 131-132: the locals before the loop
ConnectInit ==
    /\ SchedulerOff
    /\ CreationOff
    /\ GraphqlOff
    /\ CompilerOff
    /\ conn_pc = "loop"
    /\ remaining_retries = MAX_DATABASE_CONNECTION_ATTEMPTS
    /\ delay = INITIAL_RETRY_DELAY_SECS
    /\ fut_calls = 0
    /\ fut_errors = << >>
    /\ slept = 0
    /\ connected = None

\* one iteration of the loop (lines 133-155): fut().await and the match;
\* delay is a u64 that is doubled at most MAX_DATABASE_CONNECTION_ATTEMPTS
\* times
Attempt ==
    /\ conn_pc = "loop"
    /\ \E r \in FutOutcomes(fut_calls + 1) :
          /\ fut_calls' = fut_calls + 1
          /\ IF IsOk(r)
             THEN \* Ok(t) => break t
                  /\ connected' = Some(r.val)
                  /\ conn_pc' = "returned"
                  /\ UNCHANGED << remaining_retries, delay, fut_errors,
                                  slept >>
             ELSE /\ fut_errors' = Append(fut_errors, r.err[1])
                  /\ IF remaining_retries > 0
                     THEN /\ remaining_retries' = remaining_retries - 1
                          /\ slept' = slept + delay
                          /\ delay' = delay * 2
                          /\ UNCHANGED << conn_pc, connected >>
                     ELSE \* panic!("Retry attempts exceeded; ..")
                          /\ conn_pc' = "panicked"
                          /\ UNCHANGED << remaining_retries, delay, slept,
                                          connected >>
    /\ UNCHANGED << vars, creation, graphql, compiler >>

ConnectNext == Attempt

ConnectSpec ==
    ConnectInit
        /\ [][ConnectNext]_<< vars, creation, graphql, compiler, connection >>

(* ---------------------------------------------------------------------- *)
(* Properties                                                             *)
(* ---------------------------------------------------------------------- *)
(* ====================================================================== *)
(* Properties                                                             *)
(* ====================================================================== *)
Terminated == pc \in { "exited", "panicked" }

\* C1: every handle_events call that started a transaction has executed
\* exactly one of commit_transaction / revert_transaction on it when it
\* returns (commit after a successful handler, revert after a failed one),
\* and no transaction is open when the scheduler fetches the next batch.
HandleEventsEndsTransaction ==
    /\ (pc = "result" /\ tx_started) =>
           /\ tx_end \in { "commit", "revert" }
           /\ res = "ok" => tx_end = "commit"
           /\ res # "ok" => tx_end = "revert"
    /\ pc = "fetch" => ~tx_open

\* C2: once handle_events has returned, none of the rows written by a
\* handler that failed is visible, and all the rows written by a handler
\* that succeeded are visible.
BatchAtomicity ==
    pc = "result" =>
        /\ res \in { "err", "join_err" } => changes \cap Visible = {}
        /\ res = "ok" => changes \subseteq Visible

\* C3: next_cursor changes only in the step that follows a handle_events
\* that returned Ok for a response carrying a cursor, and then becomes that
\* response's cursor; a transport failure or a handler failure leaves it
\* unchanged.
CursorOrder ==
    [][ next_cursor' # next_cursor =>
            /\ pc = "result"
            /\ result = "Ok"
            /\ ~transport_failed
            /\ cursor # None
            /\ next_cursor' = cursor ]_vars

\* C3 witness: the cursor has advanced over a committed batch
CursorAdvanced ==
    /\ pc = "fetch"
    /\ next_cursor = Some(MaxHeight)
    /\ MaxHeight \in committed

\* C4: retry_count is the number of handle_events failures in a row (every
\* failure increments it, a success resets it), the task stops for failures
\* exactly when that number is INDEX_FAILED_CALLS, and keeps running below.
RetryStopsAfterFailedCalls ==
    /\ pc # "exited" => retry_count = consec_fails
    /\ pc # "exited" => consec_fails < INDEX_FAILED_CALLS
    /\ exit_cause = "failed" =>
           /\ consec_fails = INDEX_FAILED_CALLS
           /\ retry_count = INDEX_FAILED_CALLS

\* C4 witness: the task gave up after the failed calls
GaveUpAfterFailedCalls == pc = "exited" /\ exit_cause = "failed"

\* C5: when handle_events has returned and the kill flag is set, the
\* scheduler exits (no further fetch, no further handler call), whether
\* the batch ended in Ok or in Err.
KillStopsAfterBatch ==
    [][ (pc = "result" /\ kill_switch) => pc' = "exited" ]_vars

\* C6: once the kill flag is set the task eventually terminates, whatever
\* the node and the handler answer.
KillLeadsToExit == kill_switch ~> Terminated

\* C6 witness: the task exited on the kill flag
ExitedOnKill == pc = "exited" /\ exit_cause = "killed" /\ kill_switch

\* C7: the task stops for idleness if and only if the stop_idle_indexers
\* policy is on and num_empty_block_reqs has reached
\* MAX_EMPTY_BLOCK_REQUESTS; with the policy off it never stops for idleness.
IdleStopIffPolicy ==
    (exit_cause = "idle") <=>
        (stop_idle_indexers /\ num_empty_block_reqs = MAX_EMPTY_BLOCK_REQUESTS)

\* C7 witness: the task stopped for idleness
StoppedIdle == pc = "exited" /\ exit_cause = "idle"

\* C7, policy off: the task is still fetching after more than
\* MAX_EMPTY_BLOCK_REQUESTS empty responses
IdleBeyondMax ==
    /\ ~stop_idle_indexers
    /\ pc = "fetch"
    /\ num_empty_block_reqs > MAX_EMPTY_BLOCK_REQUESTS

\* C8: in an iteration whose block request failed at the transport level,
\* handle_events is not invoked and no transaction is started.
TransportFailureSkipsHandler ==
    transport_failed => (pc \notin { "run", "end", "result" } /\ ~tx_started)

\* C9: an iteration whose block request failed at the transport level
\* counts neither as an idle poll nor as a handler failure, and never ends
\* the task.
TransportFailureNotCounted ==
    [][ (transport_failed /\ pc = "result") =>
            /\ num_empty_block_reqs' = num_empty_block_reqs
            /\ retry_count' <= retry_count
            /\ pc' # "exited" ]_vars

\* ids of the transactions delivered in a block
DeliveredIds(block) ==
    [ j \in DOMAIN block.transactions |-> block.transactions[j].id ]

\* the node answered with the transaction
Fetched(id) == tx_outcomes[id] \in { "ok", "no_receipts" }

\* C10: a failed fetch of a transaction (or of its receipts) does not abort
\* the batch: handle_events is called with every fetched block, in order,
\* and each block carries, in node order, every transaction the node
\* answered with; a failed receipts fetch delivers the transaction with no
\* receipts.
EnrichKeepsBatch ==
    pc = "call" =>
        /\ Len(block_info) = Len(blocks_fetched)
        /\ \A i \in DOMAIN block_info :
               /\ block_info[i].height = blocks_fetched[i]
               /\ DeliveredIds(block_info[i]) =
                      SelectSeq(NodeTransactions(blocks_fetched[i]), Fetched)
               /\ \A j \in DOMAIN block_info[i].transactions :
                      LET t == block_info[i].transactions[j]
                      IN  t.receipts = (tx_outcomes[t.id] = "ok")

\* C10 witness: a page of two blocks reaches the handler although the fetch
\* of the first transaction of block 1 failed; the second one is delivered
BatchDeliveredDespiteTxFailure ==
    /\ pc = "call"
    /\ Len(block_info) = 2
    /\ tx_outcomes[11] = "err"
    /\ DeliveredIds(block_info[1]) = << 12 >>

LoadsUpToEntrypoint ==
    /\ exec_source = "Manifest" => (manifest_module = "Wasm" /\ wasm["file"])
    /\ \A step \in { "compiles", "env", "links", "inits", "schema" } : wasm[step]

\* C12: creating a sandboxed executor from a module without the handler
\* entry point never succeeds, spawns no indexer task and hands out no kill
\* switch; when the module is otherwise loadable the error is MissingHandler,
\* and MissingHandler is returned for no other module.
MissingHandlerSpawnsNothing ==
    create_pc = "returned" =>
        /\ ~wasm["entrypoint"] =>
              /\ create_result # Some("Ok")
              /\ tasks_spawned = 0
              /\ ~killer
              /\ LoadsUpToEntrypoint => create_result = Some("MissingHandler")
        /\ create_result = Some("MissingHandler") =>
              /\ ~wasm["entrypoint"]
              /\ tasks_spawned = 0
              /\ ~killer

\* create has returned MissingHandler
CreateFailedMissingHandler ==
    /\ create_pc = "returned"
    /\ ~wasm["entrypoint"]
    /\ create_result = Some("MissingHandler")

(* ---------------------------------------------------------------------- *)
(* The query document, read statically                                    *)
(* ---------------------------------------------------------------------- *)
FragmentDefs(doc) == SelectSeq(doc, LAMBDA d : d.def = "Fragment")
OperationDefs(doc) == SelectSeq(doc, LAMBDA d : d.def = "Operation")
DefinedFragments(doc) == { d.name : d \in Range(FragmentDefs(doc)) }
FragmentDef(doc, name) ==
    CHOOSE d \in Range(FragmentDefs(doc)) : d.name = name

\* the fragment spreads written in a selection set, at any depth, each with
\* the type of the selection set it is written in
RECURSIVE SpreadSites(_, _, _)
SpreadSites(sch, type, set) ==
    UNION { LET item == set[i] IN
            CASE item.kind = "FragmentSpread" ->
                     { [ name |-> item.name, type |-> type ] }
              [] item.kind = "Field" /\ field_type(sch, type, item.name) # None ->
                     SpreadSites(sch, field_type(sch, type, item.name)[1],
                                 item.selection_set)
              [] OTHER -> {}
          : i \in DOMAIN set }

\* every item of the selection set, at any depth, is a field of its type or
\* a fragment spread
RECURSIVE KnownFields(_, _, _)
KnownFields(sch, type, set) ==
    \A i \in DOMAIN set :
        LET item == set[i] IN
        \/ item.kind = "FragmentSpread"
        \/ /\ item.kind = "Field"
           /\ field_type(sch, type, item.name) # None
           /\ \A j \in DOMAIN item.arguments : item.arguments[j].known
           /\ KnownFields(sch, field_type(sch, type, item.name)[1],
                          item.selection_set)

\* a spread of a defined fragment in a selection of another type than the
\* fragment's type condition
Mismatched(doc, site) ==
    /\ site.name \in DefinedFragments(doc)
    /\ FragmentDef(doc, site.name).cond # site.type

\* the fragment definitions are well formed one by one: the type condition
\* is a type of the schema, the body selects fields of that type, and every
\* spread of a defined fragment is in a selection of the fragment's type
FragmentsWellTyped(sch, doc) ==
    \A d \in Range(FragmentDefs(doc)) :
        /\ check_type(sch, d.cond)
        /\ KnownFields(sch, d.cond, d.selection_set)
        /\ \A site \in SpreadSites(sch, d.cond, d.selection_set) :
               ~Mismatched(doc, site)

\* `name` spreads `other`, directly or inside a sub-selection
Spreads(sch, doc, name, other) ==
    LET d == FragmentDef(doc, name) IN
    \E site \in SpreadSites(sch, d.cond, d.selection_set) : site.name = other

\* `other` is reached from `name` through at most k + 1 spreads
RECURSIVE Reaches(_, _, _, _, _)
Reaches(sch, doc, name, other, k) ==
    \/ Spreads(sch, doc, name, other)
    \/ /\ k > 0
       /\ \E mid \in DefinedFragments(doc) :
              /\ Spreads(sch, doc, name, mid)
              /\ Reaches(sch, doc, mid, other, k - 1)

CyclicFragments(sch, doc) ==
    \E name \in DefinedFragments(doc) :
        Reaches(sch, doc, name, name, Cardinality(DefinedFragments(doc)))

SpreadsUndefinedFragment(sch, doc) ==
    \E d \in Range(FragmentDefs(doc)) :
        \E site \in SpreadSites(sch, d.cond, d.selection_set) :
            site.name \notin DefinedFragments(doc)

\* process_fragments has returned
FragmentsProcessed == gql_pc \notin { "off", "fragments", "resolve" }

\* build has returned
Built == build_result # None

(* ---------------------------------------------------------------------- *)
(* C13                                                                    *)
(* ---------------------------------------------------------------------- *)
RECURSIVE HasFragmentNode(_)
HasFragmentNode(selections) ==
    \E i \in DOMAIN selections.selections :
        \/ selections.selections[i].kind = "Fragment"
        \/ HasFragmentNode(selections.selections[i].sub)

\* C13: after build has succeeded no Fragment node remains, at any depth, in
\* the selection tree of any operation.
NoFragmentNodeAfterBuild ==
    build_result = Some("Ok") =>
        \A i \in DOMAIN operations : ~HasFragmentNode(operations[i].selections)

(* ---------------------------------------------------------------------- *)
(* C14                                                                    *)
(* ---------------------------------------------------------------------- *)
LeafOnly(set) ==
    \A i \in DOMAIN set :
        set[i].kind = "Field" /\ set[i].selection_set = << >>

\* the document is one operation selecting one top-level field whose
\* selection set holds only leaf fields and spreads of fragments defined on
\* the type of that field, whose bodies hold only leaf fields
FlatSpreadDocument(doc) ==
    /\ Len(OperationDefs(doc)) = 1
    /\ LET set == OperationDefs(doc)[1].selection_set IN
       /\ Len(set) = 1
       /\ set[1].kind = "Field"
       /\ \E i \in DOMAIN set[1].selection_set :
              set[1].selection_set[i].kind = "FragmentSpread"
       /\ \A i \in DOMAIN set[1].selection_set :
              LET item == set[1].selection_set[i] IN
              \/ item.kind = "Field" /\ item.selection_set = << >>
              \/ /\ item.kind = "FragmentSpread"
                 /\ item.name \in DefinedFragments(doc)
                 /\ Some(FragmentDef(doc, item.name).cond)
                      = field_type(TestSchema, TestSchema.query, set[1].name)
                 /\ LeafOnly(FragmentDef(doc, item.name).selection_set)

\* the names selected, each spread replaced in place by the fields of its body
RECURSIVE SpreadInPlace(_, _)
SpreadInPlace(doc, set) ==
    IF set = << >>
    THEN << >>
    ELSE (IF Head(set).kind = "FragmentSpread"
          THEN [ i \in DOMAIN FragmentDef(doc, Head(set).name).selection_set |->
                     FragmentDef(doc, Head(set).name).selection_set[i].name ]
          ELSE << Head(set).name >>)
         \o SpreadInPlace(doc, Tail(set))

\* C14: a fragment spread is replaced by the fields of the fragment's body
\* at the position of the spread: the compiled elements are the fragment's
\* fields and the fields written around the spread, in that order.
SpreadCompiledInPlace ==
    (gql_pc = "done" /\ build_result = Some("Ok") /\ FlatSpreadDocument(document)) =>
        LET field == OperationDefs(document)[1].selection_set[1]
            names == SpreadInPlace(document, field.selection_set)
        IN  /\ Len(queries) = 1
            /\ queries[1].elements =
                   [ i \in DOMAIN names |->
                         ElementField(names[i],
                                      Column(schema, field.name, names[i])) ]

(* ---------------------------------------------------------------------- *)
(* C15                                                                    *)
(* ---------------------------------------------------------------------- *)
\* C15: when the fragment definitions, each well formed, spread each other
\* cyclically (directly or through a nested spread) or spread an undefined
\* fragment, build fails with FragmentResolverFailed.
CyclicFragmentsFail ==
    ( /\ FragmentsProcessed
      /\ FragmentsWellTyped(schema, document)
      /\ CyclicFragments(schema, document)
             \/ SpreadsUndefinedFragment(schema, document) )
    => build_result = Some("FragmentResolverFailed")

(* ---------------------------------------------------------------------- *)
(* C16                                                                    *)
(* ---------------------------------------------------------------------- *)
\* C16: resolve_fragments applied again, with the same fragment map, to the
\* resolved selection tree of a query replaces no spread and returns the
\* same tree (for fragment definitions that are well formed and not cyclic).
ResolveFragmentsIdempotent ==
    ( /\ build_result = Some("Ok")
      /\ FragmentsWellTyped(schema, document)
      /\ ~CyclicFragments(schema, document) ) =>
        \A i \in DOMAIN operations :
            OperationDefs(document)[i].kind = "Query" =>
                LET again == resolve_fragments(operations[i].selections,
                                 schema, schema.query, fragments)
                IN  /\ IsOk(again)
                    /\ again.val.resolved = 0
                    /\ again.val.self = operations[i].selections

(* ---------------------------------------------------------------------- *)
(* C17                                                                    *)
(* ---------------------------------------------------------------------- *)
\* an operation spreads, at some depth, a defined fragment in a selection of
\* another type than the fragment's type condition
MismatchedSpreadInOperation(sch, doc) ==
    \E d \in Range(OperationDefs(doc)) :
        \E site \in SpreadSites(sch, sch.query, d.selection_set) :
            Mismatched(doc, site)

\* C17: a document in which an operation, bare selection set or named
\* query, spreads a fragment inside a selection whose type differs from the
\* fragment's type condition is never built: build returns an error.
MismatchedSpreadFails ==
    (Built /\ MismatchedSpreadInOperation(schema, document)) =>
        build_result # Some("Ok")

(* ---------------------------------------------------------------------- *)
(* C18                                                                    *)
(* ---------------------------------------------------------------------- *)
Unsupported(d) == d.kind \in { "Mutation", "Subscription" }

\* the operations written before the first mutation or subscription
RECURSIVE OperationsBefore(_)
OperationsBefore(ops) ==
    IF ops = << >> \/ Unsupported(Head(ops))
    THEN << >>
    ELSE << Head(ops) >> \o OperationsBefore(Tail(ops))

\* nothing that build processes before the unsupported operation can fail:
\* there is no fragment definition and the operations before it select
\* known fields only
NothingFailsBefore(sch, doc) ==
    /\ FragmentDefs(doc) = << >>
    /\ \A d \in Range(OperationsBefore(OperationDefs(doc))) :
           /\ KnownFields(sch, sch.query, d.selection_set)
           /\ SpreadSites(sch, sch.query, d.selection_set) = {}

\* C18: a document with a mutation or a subscription is rejected: build
\* returns an error and no operation is compiled, and the error is
\* OperationNotSupported whenever nothing before the operation fails, also
\* after valid query operations.
MutationRejected ==
    (Built /\ \E d \in Range(OperationDefs(document)) : Unsupported(d)) =>
        /\ build_result # Some("Ok")
        /\ operations = << >>
        /\ queries = << >>
        /\ NothingFailsBefore(schema, document) =>
               build_result = Some("OperationNotSupported")

\* a mutation or subscription written after a valid query has been rejected
MutationAfterQueryRejected ==
    /\ build_result = Some("OperationNotSupported")
    /\ NothingFailsBefore(schema, document)
    /\ OperationsBefore(OperationDefs(document)) # << >>

(* ---------------------------------------------------------------------- *)
(* C19                                                                    *)
(* ---------------------------------------------------------------------- *)
\* number of elements of the given kind among the first k
CountKind(elems, kind, k) ==
    Cardinality({ i \in 1..k : elems[i].kind = kind })

\* C19: in the elements of every compiled UserQuery the openings and the
\* closings are as many, and no prefix has more closings than openings.
BoundaryBalance ==
    \A q \in Range(queries) :
        /\ CountKind(q.elements, "ObjectOpeningBoundary", Len(q.elements))
             = CountKind(q.elements, "ObjectClosingBoundary", Len(q.elements))
        /\ \A k \in 0..Len(q.elements) :
               CountKind(q.elements, "ObjectClosingBoundary", k)
                 <= CountKind(q.elements, "ObjectOpeningBoundary", k)

\* a compiled query with two objects open at once, closed by the walk and
\* by the end of the queue
NestedObjectsCompiled ==
    \E q \in Range(queries) :
        \E k \in 1..Len(q.elements) :
            /\ CountKind(q.elements, "ObjectOpeningBoundary", k) = 2
            /\ CountKind(q.elements, "ObjectClosingBoundary", k) = 0
            /\ \E j \in (k + 1)..(Len(q.elements) - 1) :
                   /\ q.elements[j].kind = "ObjectClosingBoundary"
                   /\ q.elements[j + 1].kind = "Field"

(* ---------------------------------------------------------------------- *)
(* C20                                                                    *)
(* ---------------------------------------------------------------------- *)
\* the top-level fields of the operations, in order: one per UserQuery
TopFields == SelectSeq(TopSelections(operations), LAMBDA s : s.kind = "Field")

\* top-down, left-to-right walk of a selection tree: kind and key of the
\* element of every field
RECURSIVE PreOrder(_)
PreOrder(selections) ==
    IF selections = << >>
    THEN << >>
    ELSE LET s == Head(selections) IN
         (CASE s.kind # "Field" -> << >>
            [] s.sub.selections = << >> ->
                   << << "Field", UnwrapOr(s.alias, s.name) >> >>
            [] OTHER ->
                   << << "ObjectOpeningBoundary", UnwrapOr(s.alias, s.name) >> >>
                   \o PreOrder(s.sub.selections))
         \o PreOrder(Tail(selections))

\* kind and key of the Field and ObjectOpeningBoundary elements
Emitted(elems) ==
    LET kept == SelectSeq(elems, LAMBDA e : e.kind # "ObjectClosingBoundary")
    IN  [ i \in DOMAIN kept |-> << kept[i].kind, kept[i].key >> ]

\* C20: the Field and ObjectOpeningBoundary elements of every UserQuery are
\* in document order: the order of a top-down, left-to-right walk of the
\* selection tree of its top-level field, at every level.
ElementsInDocumentOrder ==
    \A i \in DOMAIN queries :
        Emitted(queries[i].elements) = PreOrder(TopFields[i].sub.selections)

(* ---------------------------------------------------------------------- *)
(* C21                                                                    *)
(* ---------------------------------------------------------------------- *)
\* key and nesting depth of every leaf of a selection tree, d being the
\* depth of the given selections below the top-level field
RECURSIVE LeafDepths(_, _)
LeafDepths(selections, d) ==
    IF selections = << >>
    THEN << >>
    ELSE LET s == Head(selections) IN
         (CASE s.kind # "Field" -> << >>
            [] s.sub.selections = << >> ->
                   << << UnwrapOr(s.alias, s.name), d >> >>
            [] OTHER -> LeafDepths(s.sub.selections, d + 1))
         \o LeafDepths(Tail(selections), d)

\* key of every Field element with the number of objects open before it
ScopeDepths(elems) ==
    LET at == SelectSeq([ k \in DOMAIN elems |-> k ],
                        LAMBDA k : elems[k].kind = "Field")
    IN  [ i \in DOMAIN at |->
            << elems[at[i]].key,
               CountKind(elems, "ObjectOpeningBoundary", at[i])
                 - CountKind(elems, "ObjectClosingBoundary", at[i]) >> ]

\* the two sequences hold the same items the same number of times
Occurrences(seq, x) == Cardinality({ i \in DOMAIN seq : seq[i] = x })
SameItems(a, b) ==
    /\ Len(a) = Len(b)
    /\ \A x \in Range(a) : Occurrences(a, x) = Occurrences(b, x)

\* C21: every leaf Field element of a compiled UserQuery lies inside exactly
\* the objects of its composite ancestors: the number of objects opened and
\* not yet closed before it is its nesting depth below the top-level field.
LeavesInAncestorScopes ==
    \A i \in DOMAIN queries :
        SameItems(ScopeDepths(queries[i].elements),
                  LeafDepths(TopFields[i].sub.selections, 0))

(* ---------------------------------------------------------------------- *)
(* C22                                                                    *)
(* ---------------------------------------------------------------------- *)
\* the name a selection goes by in the result: its alias if it has one
ResultName(s) == IF s.alias = None THEN s.name ELSE s.alias[1]

\* kind, result name and field name of every field of a selection tree
RECURSIVE ExpectedKeys(_)
ExpectedKeys(selections) ==
    IF selections = << >>
    THEN << >>
    ELSE LET s == Head(selections) IN
         (CASE s.kind # "Field" -> << >>
            [] s.sub.selections = << >> ->
                   << << "Field", ResultName(s), s.name >> >>
            [] OTHER ->
                   << << "ObjectOpeningBoundary", ResultName(s), "" >> >>
                   \o ExpectedKeys(s.sub.selections))
         \o ExpectedKeys(Tail(selections))

\* kind and key of every Field and ObjectOpeningBoundary element, with the
\* field named by the value of a Field element
EmittedKeys(elems) ==
    LET kept == SelectSeq(elems, LAMBDA e : e.kind # "ObjectClosingBoundary")
    IN  [ i \in DOMAIN kept |->
            << kept[i].kind, kept[i].key,
               IF kept[i].kind = "Field" THEN kept[i].value[4] ELSE "" >> ]

\* C22: the key of every Field element and of every ObjectOpeningBoundary
\* element of a compiled UserQuery is the alias of its selection when there
\* is one and the field name otherwise, and the alias of the top-level
\* field is the alias of the UserQuery.
AliasRespect ==
    \A i \in DOMAIN queries :
        /\ SameItems(EmittedKeys(queries[i].elements),
                     ExpectedKeys(TopFields[i].sub.selections))
        /\ queries[i].alias = TopFields[i].alias

\* C22 witness: a compiled query with an alias, in which a leaf and an
\* object go by their aliases and another leaf goes by its field name
AliasedQueryCompiled ==
    \E q \in Range(queries) :
        /\ q.alias # None
        /\ \E e \in Range(q.elements) :
               e.kind = "Field" /\ e.key # e.value[4]
        /\ \E e \in Range(q.elements) :
               e.kind = "Field" /\ e.key = e.value[4]
        /\ \E e \in Range(q.elements) :
               e.kind = "ObjectOpeningBoundary" /\ e.key = "first"

(* ---------------------------------------------------------------------- *)
(* C23                                                                    *)
(* ---------------------------------------------------------------------- *)
\* table a depends on table b in the join graph j
DependsOn(j, a, b) == a \in DOMAIN j /\ b \in DOMAIN j[a].dependencies

\* b is reached from a by one to k dependency edges
RECURSIVE DependsWithin(_, _, _, _)
DependsWithin(j, a, b, k) ==
    /\ k > 0
    /\ \/ DependsOn(j, a, b)
       \/ \E c \in DOMAIN j :
              DependsOn(j, a, c) /\ DependsWithin(j, c, b, k - 1)

\* C23: the dependencies of the joins of every compiled UserQuery form a
\* directed graph without a cycle: no table depends on itself, directly or
\* through other tables.
JoinsAcyclic ==
    \A q \in Range(queries) :
        \A t \in DOMAIN q.joins :
            ~DependsWithin(q.joins, t, t, Cardinality(DOMAIN q.joins))

(* ---------------------------------------------------------------------- *)
(* C24                                                                    *)
(* ---------------------------------------------------------------------- *)
\* the table named in the value of a Field element
ValueTable(e) == << e.value[1], e.value[2], e.value[3] >>

\* the table of the root entity of a UserQuery
RootTable(q) ==
    << q.namespace_identifier[1], q.namespace_identifier[2], q.entity_name >>

\* C24: in every compiled UserQuery the table named in the value of each
\* Field element is the table of the root entity or a key of the joins.
FieldTablesJoined ==
    \A q \in Range(queries) :
        \A e \in Range(q.elements) :
            e.kind = "Field" =>
                \/ ValueTable(e) = RootTable(q)
                \/ ValueTable(e) \in DOMAIN q.joins

(* ---------------------------------------------------------------------- *)
(* C25                                                                    *)
(* ---------------------------------------------------------------------- *)
\* the two sides of the join graph j agree
JoinsConsistent(j) ==
    /\ \A a \in DOMAIN j : \A b \in DOMAIN j[a].dependencies :
           /\ b \in DOMAIN j
           /\ a \in DOMAIN j[b].dependents
           /\ j[b].dependents[a] = j[a].dependencies[b]
           /\ j[a].dependencies[b].referencing_key_table = a
           /\ j[a].dependencies[b].primary_key_table = b
    /\ \A b \in DOMAIN j : \A a \in DOMAIN j[b].dependents :
           /\ a \in DOMAIN j
           /\ b \in DOMAIN j[a].dependencies

\* C25: after every composite selection, and in every compiled UserQuery,
\* table B is a dependency of table A exactly if A is a dependent of B, and
\* the two entries are the same JoinCondition, with A as the referencing
\* table and B as the primary-key table.
JoinSidesConsistent ==
    /\ JoinsConsistent(joins)
    /\ \A q \in Range(queries) : JoinsConsistent(q.joins)

\* C25 witness: a compiled query that selected two references of one table
\* to another, the later one replacing the earlier on both sides
JoinConditionReplaced ==
    \E q \in Range(queries) :
        \E a \in DOMAIN q.joins : \E b \in DOMAIN q.joins[a].dependencies :
            /\ a # b
            /\ q.joins[a].dependencies[b].referencing_key_col = "origin"
            /\ \E e \in Range(q.elements) :
                   e.kind = "ObjectOpeningBoundary" /\ e.key = "block"

(* ---------------------------------------------------------------------- *)
(* C26                                                                    *)
(* ---------------------------------------------------------------------- *)
\* the object types of a schema that have a table: all but the query root
EntityTypes(doc) ==
    { d \in Range(doc) : d.def = "Object" /\ Some(d.name) # DeclaredQuery(doc) }

\* the fields of an object type whose type is not primitive
References(o) ==
    { f \in Range(o.fields) : f.type_name \notin Primitives }

\* the dictionary entries a schema calls for: owner table, field, referenced
\* table and referenced column
ExpectedForeignKeys(doc) ==
    { << to_lowercase(o.name), f.name, to_lowercase(f.type_name),
         IF f.directives.join = None THEN "id" ELSE f.directives.join[1] >> :
          << o, f >> \in { p \in EntityTypes(doc) \X
                               UNION { References(o) : o \in EntityTypes(doc) } :
                             p[2] \in References(p[1]) } }

\* the entries of a dictionary
DictionaryEntries(foreign_keys) ==
    UNION { { << owner, f, foreign_keys[owner][f][1],
                 foreign_keys[owner][f][2] >> :
                f \in DOMAIN foreign_keys[owner] } :
            owner \in DOMAIN foreign_keys }

\* C26: the foreign-key dictionary of a loaded Schema has, for every field F
\* of a type `owner` whose type T is not primitive, the entry
\* foreign_keys[lowercase(owner)][F] = (lowercase(T), "id"), or
\* (lowercase(T), X) when F carries @join(on: X), and no other entry; the
\* owners are the types that have a table, that is all but the query root.
ForeignKeysComplete ==
    loaded # None =>
        DictionaryEntries(loaded[1].foreign_keys) = ExpectedForeignKeys(ast)

(* ---------------------------------------------------------------------- *)
(* C27                                                                    *)
(* ---------------------------------------------------------------------- *)
\* build has returned the builder
BuildReturned == sb_pc \notin { "off", "new", "definitions", "panicked" }

\* the names of the object types other than the declared query root, in
\* definition order
EntityNames(doc) ==
    LET entities_ == SelectSeq(doc, LAMBDA d : d \in EntityTypes(doc))
    IN  [ i \in DOMAIN entities_ |-> entities_[i].name ]

\* the tables of the CREATE TABLE statements, in order
CreatedTables(statements) ==
    LET creates == SelectSeq(statements, LAMBDA q : q.kind = "CREATE TABLE")
    IN  [ i \in DOMAIN creates |-> creates[i].table ]

\* C27: build emits one CREATE TABLE statement and one type-id record for
\* every object type other than the type named by `schema { query: ... }`,
\* in definition order, and none for that type, whatever its name.
TablePerEntityType ==
    BuildReturned =>
        /\ CreatedTables(sb.statements)
             = [ i \in DOMAIN EntityNames(ast) |->
                   to_lowercase(EntityNames(ast)[i]) ]
        /\ [ i \in DOMAIN sb.type_ids |-> sb.type_ids[i].graphql_name ]
             = EntityNames(ast)
        /\ \A i \in DOMAIN sb.type_ids :
               sb.type_ids[i].table_name = CreatedTables(sb.statements)[i]

\* C27 witness: a schema compiled whose query root is not named QueryRoot
\* and is defined between two entity types
RootNamedQueryCompiled ==
    /\ BuildReturned
    /\ DeclaredQuery(ast) = Some("Query")
    /\ \E i \in 2..(Len(ast) - 1) : ast[i].name = "Query"
    /\ Len(CreatedTables(sb.statements)) = 2

(* ---------------------------------------------------------------------- *)
(* C28                                                                    *)
(* ---------------------------------------------------------------------- *)
\* the place of a kind of statement in the order of the DDL
DdlRank(kind) ==
    CASE kind = "CREATE SCHEMA" -> 0
      [] kind = "CREATE TABLE" -> 1
      [] kind = "ADD CONSTRAINT" -> 2
      [] kind = "CREATE INDEX" -> 3

\* a is the beginning of b
IsPrefix(a, b) == Len(a) <= Len(b) /\ a = SubSeq(b, 1, Len(a))

\* C28: the statements the database has executed are in a fixed order: the
\* CREATE SCHEMA statement, when there is one, comes before every CREATE
\* TABLE; the CREATE TABLE statements follow the order of the definitions;
\* every foreign-key constraint comes after all CREATE TABLE statements and
\* every CREATE INDEX after all foreign-key constraints.
DdlInOrder ==
    /\ \A i \in DOMAIN executed : \A j \in DOMAIN executed :
           i < j => /\ DdlRank(executed[i].kind) <= DdlRank(executed[j].kind)
                    /\ executed[j].kind # "CREATE SCHEMA"
    /\ IsPrefix(CreatedTables(executed),
                [ i \in DOMAIN EntityNames(ast) |->
                    to_lowercase(EntityNames(ast)[i]) ])

\* C28 witness: commit_metadata has executed a CREATE SCHEMA, two CREATE
\* TABLE, a foreign-key constraint and two CREATE INDEX statements
AllDdlExecuted ==
    /\ sb_pc = "insert"
    /\ executed[1].kind = "CREATE SCHEMA"
    /\ Len(CreatedTables(executed)) = 2
    /\ \E i \in DOMAIN executed : executed[i].kind = "ADD CONSTRAINT"
    /\ Cardinality({ i \in DOMAIN executed :
                        executed[i].kind = "CREATE INDEX" }) = 2

(* ---------------------------------------------------------------------- *)
(* C29                                                                    *)
(* ---------------------------------------------------------------------- *)
\* table, column and method of the index every @indexed field of an entity
\* type calls for
ExpectedIndices(doc) ==
    UNION { { << to_lowercase(o.name), f.name, "btree" >> :
                f \in { g \in Range(o.fields) : g.directives.indexed } } :
            o \in EntityTypes(doc) }

\* number of ColumnIndex records for a table and column
IndexCount(indices, table_name, column_name) ==
    Cardinality({ i \in DOMAIN indices :
                      /\ indices[i].table_name = table_name
                      /\ indices[i].column_name = column_name })

\* C29: every field of a non-root type that carries @indexed has exactly
\* one ColumnIndex record, with method btree, for its table and column,
\* whether its type is primitive or a user-defined type; a field without
\* @indexed has none.
IndexPerIndexedField ==
    BuildReturned =>
        /\ { << sb.indices[i].table_name, sb.indices[i].column_name,
                sb.indices[i].method >> : i \in DOMAIN sb.indices }
             = ExpectedIndices(ast)
        /\ \A i \in DOMAIN sb.indices :
               IndexCount(sb.indices, sb.indices[i].table_name,
                          sb.indices[i].column_name) = 1

(* ---------------------------------------------------------------------- *)
(* C30                                                                    *)
(* ---------------------------------------------------------------------- *)
\* the column records of a type id, in the order they were recorded
ColumnsOf(self, id) == SelectSeq(self.columns, LAMBDA c : c.type_id = id)

\* the object type of the schema a type-id record stands for
TypeOf(doc, t) ==
    CHOOSE o \in Range(doc) : o.def = "Object" /\ o.name = t.graphql_name

\* C30: the column records of every table are the fields of its type in
\* definition order followed by the `object` column, which is not nullable
\* and not unique; their positions are 0..n without gap or duplicate, n
\* being the number of fields and the position of the `object` column.
ColumnsThenObject ==
    BuildReturned =>
        \A t \in Range(sb.type_ids) :
            LET cols == ColumnsOf(sb, t.id)
                fields == TypeOf(ast, t).fields
                n == Len(fields)
            IN  /\ Len(cols) = n + 1
                /\ \A i \in 1..n : cols[i].column_name = fields[i].name
                /\ \A i \in 1..(n + 1) : cols[i].column_position = i - 1
                /\ cols[n + 1].column_name = "object"
                /\ ~cols[n + 1].nullable
                /\ ~cols[n + 1].unique

\* C30 witness: a table with a nullable reference among its three fields
\* and a unique column in another table
ReferenceColumnRecorded ==
    /\ BuildReturned
    /\ \E c \in Range(sb.columns) :
           /\ c.column_name = "borrower" /\ c.nullable
           /\ c.column_position = 1
    /\ \E c \in Range(sb.columns) : c.column_name = "account" /\ c.unique
    /\ \E c \in Range(sb.columns) :
           c.column_name = "object" /\ c.column_position = 3

(* ====================================================================== *)
(* C31: compile failures are error values                                 *)
(* ====================================================================== *)
\* a field of a list type somewhere in the schema text
HasListField(doc) ==
    \E i \in DOMAIN doc : \E j \in DOMAIN doc[i].fields : doc[i].fields[j].list

\* the failures of the schema text: it does not parse, it has no
\* `schema { query: X }`, it has a list-typed field
CompileFailure(doc) ==
    \/ ~IsOk(parse_schema(doc))
    \/ DeclaredQuery(doc) = None
    \/ HasListField(doc)

\* C31: on schema text that does not parse, that has no
\* `schema { query: X }` definition or that contains a list-typed field the
\* compiler never aborts: build does not panic on such a text.
CompileFailuresAreErrors ==
    CompileFailure(ast) => sb_pc # "panicked"

(* ====================================================================== *)
(* C32: DDL determinism                                                   *)
(* ====================================================================== *)
\* what a build produces: the statements, the foreign-key records, the
\* index records, the type ids and the column records, each in order
DdlOf(self) ==
    << self.statements, self.foreign_keys, self.indices, self.type_ids,
       self.columns >>

RecordEntries(self) ==
    { << fk.table_name, fk.column_name, fk.reference_table_name,
         fk.reference_column_name >> : fk \in Range(self.foreign_keys) }

\* C36: for every schema text, the foreign-key records SchemaBuilder::build
\* produces and the dictionary get_foreign_keys derives from the same text
\* describe the same set of (owner table, field, referenced table,
\* referenced column) tuples; both leave out the fields of the query root
\* type, whatever the query root is named.
ForeignKeysAgree ==
    (sb_pc = "built" /\ IsOk(get_foreign_keys(ast))) =>
        RecordEntries(sb) = DictionaryEntries(get_foreign_keys(ast).val)

(* ====================================================================== *)
(* C37: the Schema of commit_metadata and the Schema of load_from_db      *)
(* ====================================================================== *)
\* C37: the Schema commit_metadata returns for a schema text has the same
\* foreign_keys dictionary as the Schema load_from_db rebuilds afterwards
\* for the same namespace and identifier.
CommittedForeignKeysAsLoaded ==
    (commit_schema # None /\ loaded # None) =>
        commit_schema[1].foreign_keys = loaded[1].foreign_keys

(* ====================================================================== *)
(* C38: num_empty_block_reqs counts consecutive idle polls                *)
(* ====================================================================== *)
\* C38: num_empty_block_reqs counts consecutive idle polls only: every
\* response that carries a cursor resets it to 0 by the end of the
\* iteration that received it, so the idle stop is only reached by
\* MAX_EMPTY_BLOCK_REQUESTS empty responses with no page in between.
CursorResetsIdleCount ==
    [][(pc = "result" /\ pc' # "result" /\ cursor # None)
           => num_empty_block_reqs' = 0]_vars

(* ====================================================================== *)
(* C40: attempt_database_connection                                       *)
(* ====================================================================== *)
\* C40: attempt_database_connection returns the value of the first
\* successful connection attempt without making any further attempt, and
\* when every attempt fails it gives up after a bounded number of attempts:
\* the connection function is called at most
\* MAX_DATABASE_CONNECTION_ATTEMPTS times in total.
ConnectionAttemptsBounded ==
    /\ conn_pc = "returned" =>
           /\ connected = Some(Pool(Len(fut_errors) + 1))
           /\ fut_calls = Len(fut_errors) + 1
    /\ fut_calls <= MAX_DATABASE_CONNECTION_ATTEMPTS

(* ====================================================================== *)
(* C33: the fragment-resolution loop terminates                           *)
(* ====================================================================== *)
\* the spreads left in the bodies of the fragments that are not resolved
\* yet: the Fragment nodes has_fragments stands for
RECURSIVE RemainingSpreads(_)
RemainingSpreads(pending_frags) ==
    IF pending_frags = << >>
    THEN 0
    ELSE Cardinality({ i \in DOMAIN Head(pending_frags).frag.selections.selections :
                          Head(pending_frags).frag.selections.selections[i].kind
                              = "Fragment" })
         + RemainingSpreads(Tail(pending_frags))

\* a pass goes on to the next pass with strictly fewer spreads left
PassReduces ==
    /\ gql_pc' = "resolve"
    /\ RemainingSpreads(to_resolve') < RemainingSpreads(to_resolve)

\* a pass ends the loop with every fragment resolved
PassResolvesAll ==
    /\ gql_pc' = "operations"
    /\ to_resolve' = << >>

\* a pass makes process_fragments return the error
PassReturns(error) ==
    /\ gql_pc' = "done"
    /\ build_result' = Some(error)

\* C33 as stated: each pass of process_fragments either strictly reduces
\* the number of spreads left in the unresolved fragments, ends with all
\* fragments resolved, or returns FragmentResolverFailed.
EachPassReducesOrFails ==
    [][gql_pc = "resolve" =>
           \/ PassReduces
           \/ PassResolvesAll
           \/ PassReturns("FragmentResolverFailed")]_graphql

\* C33, amended: each pass of process_fragments either strictly reduces the
\* number of spreads left in the unresolved fragments, ends with all
\* fragments resolved, or returns an error, FragmentResolverFailed or the
\* InvalidFragmentSelection of a spread on the wrong type; so the loop
\* makes at most as many passes as there are spreads to begin with.
EachPassReducesOrReturns ==
    [][gql_pc = "resolve" =>
           \/ PassReduces
           \/ PassResolvesAll
           \/ PassReturns("FragmentResolverFailed")
           \/ PassReturns("InvalidFragmentSelection")]_graphql

\* the loop has gone into a second pass and finished it
SecondPassDone ==
    /\ passes = 2
    /\ gql_pc = "operations"

(* ====================================================================== *)
(* C34: the queue and the stack of parent entities stay aligned           *)
(* ====================================================================== *)
\* C34: while a top-level field is compiled, the queue of pending
\* selections and the vector of parent entity names have the same length
\* before every pop, so entities.pop().unwrap() never fails, also for
\* selection trees that still contain Fragment nodes.
QueueMatchesEntities ==
    /\ gql_pc = "walk" => Len(queue) = Len(entities)
    /\ gql_pc # "panicked"

\* a Fragment node below a composite field is about to be popped
FragmentNodePopped ==
    /\ gql_pc = "walk"
    /\ queue # << >>
    /\ Last(queue).kind = "Fragment"
    /\ nested_entity_stack # << >>
    /\ Len(queue) >= 2

(* ====================================================================== *)
(* C35: no argument is dropped                                            *)
(* ====================================================================== *)
\* the arguments attached to the fields of a selection tree
RECURSIVE ArgumentsOf(_)
ArgumentsOf(selections) ==
    IF selections = << >>
    THEN {}
    ELSE LET s == Head(selections) IN
         (IF s.kind = "Field"
          THEN Range(s.params) \cup ArgumentsOf(s.sub.selections)
          ELSE {})
         \cup ArgumentsOf(Tail(selections))

\* the arguments in the QueryParams of a query, each scoped to a table
ScopedArguments(params) ==
    UNION { Range(params[i].filters) : i \in DOMAIN params }

\* C35: no argument is silently dropped: every argument attached to a field
\* of the selection tree (the top-level field, a leaf, or a composite field
\* with or without a foreign-key dictionary entry) is in query_params of
\* the compiled UserQuery, scoped to a table.
NoArgumentDropped ==
    \A i \in DOMAIN queries :
        ArgumentsOf(<< TopFields[i] >>)
            \subseteq ScopedArguments(queries[i].query_params)

(* ====================================================================== *)
(* C39: a fragment on T is spread in a field of type T or T!              *)
(* ====================================================================== *)
\* a spread of a defined fragment in a selection whose declared type,
\* nullable or non-null, is the fragment's type condition
OnDeclaredType(doc, site) ==
    /\ site.name \in DefinedFragments(doc)
    /\ FragmentDef(doc, site.name).cond = normalize_field_type_name(site.type)

\* every spread of the document, in a fragment body or in an operation, is
\* one of a fragment on the declared type of the selection it is written in
SpreadsOnDeclaredTypes(sch, doc) ==
    /\ \A d \in Range(FragmentDefs(doc)) :
           /\ check_type(sch, d.cond)
           /\ \A site \in SpreadSites(sch, d.cond, d.selection_set) :
                  OnDeclaredType(doc, site)
    /\ \A d \in Range(OperationDefs(doc)) :
           \A site \in SpreadSites(sch, sch.query, d.selection_set) :
               OnDeclaredType(doc, site)

\* C39: a fragment whose type condition names type T can be spread inside
\* the selection set of any field whose declared type is T, nullable (T) or
\* non-null (T!): when every spread of a document is such a spread, build
\* does not report InvalidFragmentSelection.
SpreadOnDeclaredTypeResolves ==
    (Built /\ SpreadsOnDeclaredTypes(schema, document)) =>
        build_result # Some("InvalidFragmentSelection")

====
